---- MODULE Spec2Model ----
(***************************************************************************)
(* A model of the JYAML reference implementation (python): the lexer,      *)
(* the parser, the typed value tree, the converter (loads) and the         *)
(* serializer (dumps).                                                     *)
(*                                                                         *)
(* A text is a sequence of Unicode code points (a Python str), so chr and  *)
(* ord are the identity on the representation and the surrogate and        *)
(* ensure_ascii arithmetic is plain integer arithmetic.  The lexer, the    *)
(* parser, the converter and the serializer are pure functions of the      *)
(* text and the options: each is an operator computed the way the code     *)
(* computes it, and the state machine applies them to inputs drawn from    *)
(* bounded sets.                                                           *)
(***************************************************************************)
EXTENDS Integers, Sequences, FiniteSets, TLC

(***************************************************************************)
(* Characters (code points) the lexer and the serializer name.             *)
(***************************************************************************)
None == -1
BS == 8
TAB == 9
LF == 10
FF == 12
CR == 13
SP == 32
DQUOTE == 34
HASH == 35
SQUOTE == 39
PLUS == 43
COMMA == 44
DASH == 45
DOT == 46
SLASH == 47
ZERO == 48
COLON == 58
GREATER == 62
LEFT_BRACKET == 91
BACKSLASH == 92
RIGHT_BRACKET == 93
UNDERSCORE == 95
LEFT_BRACE == 123
PIPE == 124
RIGHT_BRACE == 125
BOM == 65279

Digits == 48..57
HexDigits == Digits \cup (97..102) \cup (65..70)

\* str.isdigit, str.isalpha, str.isalnum on the Latin-1 range
IsDigit(c) == c \in Digits
IsAlpha(c) ==
    c \in (65..90) \cup (97..122) \cup {170, 181, 186}
          \cup (192..214) \cup (216..246) \cup (248..255)
IsAlnum(c) == IsAlpha(c) \/ IsDigit(c)

\* the characters str.strip() removes (str.isspace), Latin-1 range
PyWhitespace == (9..13) \cup (28..32) \cup {133, 160}

\* "null", "true", "false", "inf" as code point sequences
StrNull == <<110, 117, 108, 108>>
StrTrue == <<116, 114, 117, 101>>
StrFalse == <<102, 97, 108, 115, 101>>

RECURSIVE LStrip(_, _)
LStrip(s, ws) ==
    IF s # <<>> /\ Head(s) \in ws THEN LStrip(Tail(s), ws) ELSE s

RECURSIVE RStrip(_, _)
RStrip(s, ws) ==
    IF s # <<>> /\ s[Len(s)] \in ws THEN RStrip(SubSeq(s, 1, Len(s) - 1), ws) ELSE s

\* str.strip()
PyStrip(s) == RStrip(LStrip(s, PyWhitespace), PyWhitespace)

\* str(n) for an integer n
RECURSIVE StrOfNat(_)
StrOfNat(n) ==
    IF n < 10 THEN <<ZERO + n>> ELSE Append(StrOfNat(n \div 10), ZERO + (n % 10))

StrOfInt(n) == IF n < 0 THEN <<DASH>> \o StrOfNat(-n) ELSE StrOfNat(n)

(***************************************************************************)
(* Errors.  kind is the exception class; a position of None is a           *)
(* ParseError built without a token.  message is the fixed part of the     *)
(* message the code formats: what precedes ": <detail>" (the character,    *)
(* the identifier, the token type, the limit), and the " at line L,        *)
(* column C" that ParseError appends when it is given a token.             *)
(***************************************************************************)
Error(kind, message, line, column) ==
    [kind |-> kind, message |-> message, line |-> line, column |-> column]

NoError == Error("none", "", None, None)

LexerError(message, line, column) == Error("LexerError", message, line, column)

(***************************************************************************)
(* Lexer.  lx is the lexer's mutable state.                                *)
(***************************************************************************)
Token(type, value, line, column) ==
    [type |-> type, value |-> value, line |-> line, column |-> column]

LexerInit ==
    [position |-> 0, line |-> 1, column |-> 1, at_line_start |-> TRUE]

CurrentChar(text, lx) ==
    IF lx.position >= Len(text) THEN None ELSE text[lx.position + 1]

PeekChar(text, lx) ==
    IF lx.position + 1 >= Len(text) THEN None ELSE text[lx.position + 2]

\* advance resetting the column at a newline without counting the line
AdvanceSameLine(text, lx) ==
    IF lx.position >= Len(text) THEN lx
    ELSE IF text[lx.position + 1] = LF
         THEN [lx EXCEPT !.position = @ + 1, !.column = 1, !.at_line_start = TRUE]
         ELSE [lx EXCEPT !.position = @ + 1, !.column = @ + 1]

Advance(text, lx) ==
    IF lx.position >= Len(text) THEN lx
    ELSE IF text[lx.position + 1] = LF
         THEN [lx EXCEPT !.position = @ + 1, !.line = @ + 1, !.column = 1,
                         !.at_line_start = TRUE]
         ELSE [lx EXCEPT !.position = @ + 1, !.column = @ + 1]

\* the result of a lexer routine: the state it leaves, what it returns, what it raises
LexOk(lx, value) == [lx |-> lx, value |-> value, err |-> NoError]
LexFail(message, lx) ==
    [lx |-> lx, value |-> <<>>, err |-> LexerError(message, lx.line, lx.column)]

\* the rest K of a routine after a call that returned r, unless the call raised
LexBind(r, K(_)) == IF r.err # NoError THEN r ELSE K(r)

\* skip_whitespace taking a tab for whitespace
RECURSIVE SkipWhitespaceTabs(_, _)
SkipWhitespaceTabs(text, lx) ==
    IF CurrentChar(text, lx) \notin {SP, TAB, CR} THEN LexOk(lx, <<>>)
    ELSE SkipWhitespaceTabs(text, Advance(text, lx))

RECURSIVE SkipWhitespace(_, _)
SkipWhitespace(text, lx) ==
    LET char == CurrentChar(text, lx) IN
    IF char \notin {SP, TAB, CR} THEN LexOk(lx, <<>>)
    ELSE IF char = TAB THEN LexFail("Tab character in indentation", lx)
    ELSE SkipWhitespace(text, Advance(text, lx))

\* "while self.current_char() == ' ': indent += 1"
RECURSIVE CountSpaces(_, _, _)
CountSpaces(text, lx, indent) ==
    IF CurrentChar(text, lx) = SP
    THEN CountSpaces(text, Advance(text, lx), indent + 1)
    ELSE LexOk(lx, indent)

CountIndent(text, lx) ==
    LexBind(CountSpaces(text, lx, 0),
            LAMBDA r : IF CurrentChar(text, r.lx) = TAB
                       THEN LexFail("Tab character in indentation", r.lx)
                       ELSE r)

escape_map ==
    (DQUOTE :> DQUOTE) @@ (SQUOTE :> SQUOTE) @@ (BACKSLASH :> BACKSLASH)
    @@ (SLASH :> SLASH) @@ (98 :> BS) @@ (102 :> FF) @@ (110 :> LF)
    @@ (114 :> CR) @@ (116 :> TAB)

HexValue(c) ==
    IF c \in Digits THEN c - 48 ELSE IF c \in 97..102 THEN c - 87 ELSE c - 55

\* the loop "for _ in range(4)" reading hex digits: value is int(hex_digits, 16)
RECURSIVE ReadHex(_, _, _, _, _)
ReadHex(text, lx, n, acc, message) ==
    IF n = 0 THEN LexOk(lx, acc)
    ELSE LET digit == CurrentChar(text, lx) IN
         IF digit = None \/ digit \notin HexDigits
         THEN LexFail(message, lx)
         ELSE ReadHex(text, Advance(text, lx), n - 1, acc * 16 + HexValue(digit),
                      message)

\* _read_low_surrogate without its test of the range DC00..DFFF
ReadLowSurrogateUnchecked(text, lx) ==
    IF CurrentChar(text, lx) # BACKSLASH
    THEN LexFail("Expected '\\' for low surrogate", lx)
    ELSE IF CurrentChar(text, Advance(text, lx)) # 117
    THEN LexFail("Expected 'u' for low surrogate", Advance(text, lx))
    ELSE ReadHex(text, Advance(text, Advance(text, lx)), 4, 0,
                 "Invalid unicode escape in low surrogate")

ReadLowSurrogate(text, lx) ==
    IF CurrentChar(text, lx) # BACKSLASH
    THEN LexFail("Expected '\\' for low surrogate", lx)
    ELSE IF CurrentChar(text, Advance(text, lx)) # 117
    THEN LexFail("Expected 'u' for low surrogate", Advance(text, lx))
    ELSE LexBind(ReadHex(text, Advance(text, Advance(text, lx)), 4, 0,
                         "Invalid unicode escape in low surrogate"),
                 LAMBDA h : IF ~(56320 <= h.value /\ h.value <= 57343)
                            THEN LexFail("Expected low surrogate (DC00-DFFF)", h.lx)
                            ELSE h)

RECURSIVE ReadStringLoop(_, _, _, _)

\* the branch "elif escaped == 'u'" of read_string, from the first hex digit
ReadUnicodeEscape(text, lx, quote, value) ==
    LexBind(ReadHex(text, lx, 4, 0, "Invalid unicode escape"),
        LAMBDA h :
            IF 55296 <= h.value /\ h.value <= 56319
            THEN LexBind(ReadLowSurrogate(text, h.lx),
                     LAMBDA low :
                         ReadStringLoop(text, low.lx, quote,
                             Append(value, 65536 + ((h.value - 55296) * 1024)
                                                 + (low.value - 56320))))
            ELSE IF 56320 <= h.value /\ h.value <= 57343
            THEN LexFail("Unexpected low surrogate", h.lx)
            ELSE ReadStringLoop(text, h.lx, quote, Append(value, h.value)))

ReadStringLoop(text, lx, quote, value) ==
    LET char == CurrentChar(text, lx)
        l1 == Advance(text, lx)
        escaped == CurrentChar(text, Advance(text, lx))
    IN
    IF char = None \/ char = quote
    THEN IF char # quote THEN LexFail("Unterminated string", lx)
         ELSE LexOk(l1, value)
    ELSE IF char = BACKSLASH
    THEN IF escaped = None THEN LexFail("Unterminated string", l1)
         ELSE IF escaped \in DOMAIN escape_map
         THEN ReadStringLoop(text, Advance(text, l1), quote,
                             Append(value, escape_map[escaped]))
         ELSE IF escaped = 117
         THEN ReadUnicodeEscape(text, Advance(text, l1), quote, value)
         ELSE LexFail("Invalid escape sequence", l1)
    ELSE ReadStringLoop(text, l1, quote, Append(value, char))

ReadString(text, lx, quote) == ReadStringLoop(text, Advance(text, lx), quote, <<>>)

\* "while char and char.isdigit(): value += advance()"
RECURSIVE ReadDigits(_, _, _)
ReadDigits(text, lx, value) ==
    LET char == CurrentChar(text, lx) IN
    IF char # None /\ IsDigit(char)
    THEN ReadDigits(text, Advance(text, lx), Append(value, char))
    ELSE LexOk(lx, value)

\* read_number, part by part; r is the result so far
ReadSign(text, lx) ==
    IF CurrentChar(text, lx) = DASH THEN LexOk(Advance(text, lx), <<DASH>>)
    ELSE LexOk(lx, <<>>)

ReadIntegerPart(text, r) ==
    LET current == CurrentChar(text, r.lx) IN
    IF current = ZERO THEN LexOk(Advance(text, r.lx), Append(r.value, current))
    ELSE IF current # None /\ IsDigit(current) THEN ReadDigits(text, r.lx, r.value)
    ELSE LexFail("Invalid number format", r.lx)

ReadDecimalPart(text, r) ==
    LET l1 == Advance(text, r.lx)
        current == CurrentChar(text, Advance(text, r.lx))
    IN  IF CurrentChar(text, r.lx) # DOT THEN r
        ELSE IF ~(current # None /\ IsDigit(current))
        THEN LexFail("Invalid number format", l1)
        ELSE ReadDigits(text, l1, Append(r.value, DOT))

ReadExponentPart(text, r) ==
    LET e == CurrentChar(text, r.lx)
        l1 == Advance(text, r.lx)
        sign == CurrentChar(text, Advance(text, r.lx))
        l2 == IF sign \in {PLUS, DASH} THEN Advance(text, Advance(text, r.lx))
              ELSE Advance(text, r.lx)
        value == IF sign \in {PLUS, DASH} THEN r.value \o <<e, sign>>
                 ELSE Append(r.value, e)
    IN  IF e \notin {101, 69} THEN r
        ELSE IF ~(CurrentChar(text, l2) # None /\ IsDigit(CurrentChar(text, l2)))
        THEN LexFail("Invalid number format", l2)
        ELSE ReadDigits(text, l2, value)

ReadNumber(text, lx) ==
    LexBind(ReadIntegerPart(text, ReadSign(text, lx)),
        LAMBDA int : LexBind(ReadDecimalPart(text, int),
            LAMBDA frac : ReadExponentPart(text, frac)))

\* "while self.current_char() and self.current_char() != '\n'"
RECURSIVE ReadToEol(_, _, _)
ReadToEol(text, lx, value) ==
    LET char == CurrentChar(text, lx) IN
    IF char # None /\ char # LF
    THEN ReadToEol(text, Advance(text, lx), Append(value, char))
    ELSE LexOk(lx, value)

\* read_comment returning the comment as read, without strip()
ReadCommentUnstripped(text, lx) == ReadToEol(text, Advance(text, lx), <<>>)

ReadComment(text, lx) ==
    LexBind(ReadToEol(text, Advance(text, lx), <<>>),
            LAMBDA r : LexOk(r.lx, PyStrip(r.value)))

RECURSIVE ReadIdentifier(_, _, _)
ReadIdentifier(text, lx, value) ==
    LET char == CurrentChar(text, lx) IN
    IF char # None /\ (IsAlnum(char) \/ char = UNDERSCORE)
    THEN ReadIdentifier(text, Advance(text, lx), Append(value, char))
    ELSE LexOk(lx, value)

\* sep.join(lines)
RECURSIVE Join(_, _)
Join(lines, sep) ==
    IF lines = <<>> THEN <<>>
    ELSE IF Len(lines) = 1 THEN lines[1]
    ELSE lines[1] \o sep \o Join(Tail(lines), sep)

\* [line.strip() for line in lines if line.strip()]
RECURSIVE StrippedNonEmpty(_)
StrippedNonEmpty(lines) ==
    IF lines = <<>> THEN <<>>
    ELSE IF PyStrip(lines[1]) # <<>>
         THEN <<PyStrip(lines[1])>> \o StrippedNonEmpty(Tail(lines))
         ELSE StrippedNonEmpty(Tail(lines))

\* the loop of read_multiline_string that collects the lines of the scalar
RECURSIVE ReadMultilineLines(_, _, _, _)

\* one iteration of that loop, after count_indent returned ci
ReadMultilineLine(text, line_start_pos, ci, lines, base_indent) ==
    LET indent == ci.value
        cur == CurrentChar(text, ci.lx)
    IN  IF cur \in {LF, None} \/ indent = 0
        THEN IF cur = LF
             THEN ReadMultilineLines(text, Advance(text, ci.lx),
                                     Append(lines, <<>>), base_indent)
             ELSE LexOk([ci.lx EXCEPT !.position = line_start_pos], lines)
        ELSE IF base_indent # None /\ indent < base_indent
        THEN LexOk([ci.lx EXCEPT !.position = line_start_pos], lines)
        ELSE LexBind(ReadToEol(text, ci.lx, <<>>),
                 LAMBDA content :
                     ReadMultilineLines(text,
                         IF CurrentChar(text, content.lx) = LF
                         THEN Advance(text, content.lx) ELSE content.lx,
                         Append(lines, content.value),
                         IF base_indent = None THEN indent ELSE base_indent))

ReadMultilineLines(text, lx, lines, base_indent) ==
    IF CurrentChar(text, lx) = None THEN LexOk(lx, lines)
    ELSE LexBind(CountIndent(text, lx),
             LAMBDA ci : ReadMultilineLine(text, lx.position, ci, lines, base_indent))

\* "Process lines based on indicator" and "Apply chomping indicators"
MultilineResult(lines, indicator, strip_final, keep_final) ==
    LET Chomp(result) ==
            IF strip_final THEN RStrip(result, {LF})
            ELSE IF keep_final /\ result # <<>> /\ result[Len(result)] # LF
            THEN Append(result, LF)
            ELSE result
    IN  Chomp(IF indicator = "|" THEN Join(lines, <<LF>>)
              ELSE Join(StrippedNonEmpty(lines), <<SP>>))

\* indicator is the string next_token passes: "|", "|-", ">" or ">-"
ReadMultilineString(text, lx, indicator) ==
    LET c1 == CurrentChar(text, Advance(text, lx))
        l2 == IF c1 \in {DASH, PLUS} THEN Advance(text, Advance(text, lx))
              ELSE Advance(text, lx)
    IN  LexBind(SkipWhitespace(text, l2),
            LAMBDA sw :
                IF CurrentChar(text, sw.lx) # LF
                THEN LexFail("Multiline string must start on new line", sw.lx)
                ELSE LexBind(ReadMultilineLines(text, Advance(text, sw.lx), <<>>, None),
                         LAMBDA body :
                             LexOk(body.lx,
                                   MultilineResult(body.value, indicator,
                                                   c1 = DASH, c1 = PLUS))))

single_char_tokens ==
    (COLON :> "COLON") @@ (COMMA :> "COMMA") @@ (LEFT_BRACKET :> "LEFT_BRACKET")
    @@ (RIGHT_BRACKET :> "RIGHT_BRACKET") @@ (LEFT_BRACE :> "LEFT_BRACE")
    @@ (RIGHT_BRACE :> "RIGHT_BRACE") @@ (DASH :> "DASH")

\* a routine's result turned into the token next_token returns, positioned at (line, column)
AsToken(r, type, line, column) ==
    LexBind(r, LAMBDA ok : LexOk(ok.lx, Token(type, ok.value, line, column)))

\* next_token after ReadIdentifier returned id
IdentifierToken(id, line, column) ==
    IF id.value = StrTrue THEN AsToken(id, "TRUE", line, column)
    ELSE IF id.value = StrFalse THEN AsToken(id, "FALSE", line, column)
    ELSE IF id.value = StrNull THEN AsToken(id, "NULL", line, column)
    ELSE [lx |-> id.lx, value |-> <<>>,
          err |-> LexerError("Unknown identifier", line, column)]

\* next_token from "if self.current_char() is None" on
ScanToken(text, lx) ==
    LET char == CurrentChar(text, lx)
        line == lx.line
        column == lx.column
        peek == PeekChar(text, lx)
    IN
    IF char = None THEN LexOk(lx, Token("EOF", <<>>, line, column))
    ELSE IF char = LF THEN LexOk(Advance(text, lx), Token("NEWLINE", <<LF>>, line, column))
    ELSE IF char = HASH THEN AsToken(ReadComment(text, lx), "COMMENT", line, column)
    ELSE IF char \in {DQUOTE, SQUOTE}
    THEN AsToken(ReadString(text, lx, char), "STRING", line, column)
    ELSE IF char = PIPE
    THEN AsToken(ReadMultilineString(text, lx, IF peek = DASH THEN "|-" ELSE "|"),
                 "STRING", line, column)
    ELSE IF char = GREATER
    THEN AsToken(ReadMultilineString(text, lx, IF peek = DASH THEN ">-" ELSE ">"),
                 "STRING", line, column)
    ELSE IF IsDigit(char) \/ (char = DASH /\ peek # None /\ IsDigit(peek))
    THEN AsToken(ReadNumber(text, lx), "NUMBER", line, column)
    ELSE IF IsAlpha(char)
    THEN IdentifierToken(ReadIdentifier(text, lx, <<>>), line, column)
    ELSE IF char \in DOMAIN single_char_tokens
    THEN LexOk(Advance(text, lx), Token(single_char_tokens[char], <<char>>, line, column))
    ELSE [lx |-> lx, value |-> <<>>,
          err |-> LexerError("Unexpected character", line, column)]

\* next_token returning INDENT with the cursor left before the spaces it counted
NextTokenIndentUnread(text, lx) ==
    LET Scan(from) == LexBind(SkipWhitespace(text, from),
                              LAMBDA sw : ScanToken(text, sw.lx))
    IN  IF lx.at_line_start
        THEN LexBind(CountIndent(text, [lx EXCEPT !.at_line_start = FALSE]),
                 LAMBDA ci :
                     IF ci.value > 0
                     THEN LexOk([lx EXCEPT !.at_line_start = FALSE],
                                Token("INDENT", StrOfNat(ci.value), ci.lx.line,
                                      ci.lx.column - ci.value))
                     ELSE Scan(ci.lx))
        ELSE Scan(lx)

NextToken(text, lx) ==
    LET Scan(from) == LexBind(SkipWhitespace(text, from),
                              LAMBDA sw : ScanToken(text, sw.lx))
    IN  IF lx.at_line_start
        THEN LexBind(CountIndent(text, [lx EXCEPT !.at_line_start = FALSE]),
                 LAMBDA ci :
                     IF ci.value > 0
                     THEN LexOk(ci.lx, Token("INDENT", StrOfNat(ci.value), ci.lx.line,
                                             ci.lx.column - ci.value))
                     ELSE Scan(ci.lx))
        ELSE Scan(lx)

\* Lexer.__init__: the error it raises, if any
LexerNew(text) ==
    IF text # <<>> /\ text[1] = BOM THEN LexerError("BOM not allowed", 1, 1)
    ELSE NoError

\* tokenize: the tokens yielded, and the LexerError that ends the iteration, if any
RECURSIVE TokenizeFrom(_, _, _)
TokenizeFrom(text, lx, tokens) ==
    LET Yield(r) ==
            IF r.err # NoError THEN [tokens |-> tokens, err |-> r.err]
            ELSE IF r.value.type = "EOF"
            THEN [tokens |-> Append(tokens, r.value), err |-> NoError]
            ELSE TokenizeFrom(text, r.lx, Append(tokens, r.value))
    IN  Yield(NextToken(text, lx))

Tokenize(text) == TokenizeFrom(text, LexerInit, <<>>)

\* Lexer(text).tokenize(), iterated to its end
LexerRun(text) ==
    IF LexerNew(text) # NoError THEN [tokens |-> <<>>, err |-> LexerNew(text)]
    ELSE Tokenize(text)

(***************************************************************************)
(* Value tree.  The classes of types.py are pydantic models configured     *)
(* with str_strip_whitespace=True: constructing one strips every str it    *)
(* validates, the value of a JYAMLString and the keys of a JYAMLObject.    *)
(* A dict is an insertion-ordered sequence of <<key, value>> pairs.        *)
(***************************************************************************)
\* the characters pydantic's strip removes (Unicode White_Space), Latin-1 range
StripWhitespace == (9..13) \cup {32, 133, 160}

str_strip_whitespace(s) == RStrip(LStrip(s, StripWhitespace), StripWhitespace)

\* d[key] = value on a Python dict
DictSet(d, key, value) ==
    IF \E i \in 1..Len(d) : d[i][1] = key
    THEN [i \in 1..Len(d) |-> IF d[i][1] = key THEN <<key, value>> ELSE d[i]]
    ELSE Append(d, <<key, value>>)

\* the dict pydantic builds from the pairs of d, each key validated
RECURSIVE StripKeys(_, _)
StripKeys(d, acc) ==
    IF d = <<>> THEN acc
    ELSE StripKeys(Tail(d), DictSet(acc, str_strip_whitespace(d[1][1]), d[1][2]))

JYAMLNull == [t |-> "null", v |-> <<>>]
JYAMLBool(value) == [t |-> "bool", v |-> value]
JYAMLNumber(value) == [t |-> "number", v |-> value]
JYAMLString(value) == [t |-> "string", v |-> str_strip_whitespace(value)]
JYAMLArray(value) == [t |-> "array", v |-> value]
JYAMLObject(value) == [t |-> "object", v |-> StripKeys(value, <<>>)]

NoValue == [t |-> "none", v |-> <<>>]

(***************************************************************************)
(* Numbers.  A Python int is an integer; a Python float is modelled by     *)
(* its shortest decimal: sign, the significant digits ds without leading   *)
(* or trailing zeros, and the exponent e of the last digit (0.ds * 10^dp   *)
(* with dp = Len(ds) + e), or an infinity.  The model is exact for         *)
(* lexemes of at most 15 significant digits; the overflow threshold        *)
(* (1.797...e308) and the underflow threshold are taken at the power of    *)
(* ten.                                                                    *)
(***************************************************************************)
RECURSIVE NatOfStr(_, _)
NatOfStr(s, acc) ==
    IF s = <<>> THEN acc ELSE NatOfStr(Tail(s), acc * 10 + (Head(s) - ZERO))

\* int(lexeme), float(lexeme) for a lexeme of the number grammar
IntOfStr(s) ==
    IF s # <<>> /\ s[1] = DASH THEN 0 - NatOfStr(Tail(s), 0)
    ELSE IF s # <<>> /\ s[1] = PLUS THEN NatOfStr(Tail(s), 0)
    ELSE NatOfStr(s, 0)

PyInt(n) == [k |-> "int", n |-> n]
PyFloat(neg, inf, ds, e) == [k |-> "float", neg |-> neg, inf |-> inf, ds |-> ds, e |-> e]

\* the index of the first element of s that is in set, or Len(s) + 1
RECURSIVE IndexOf(_, _, _)
IndexOf(s, set, i) ==
    IF i > Len(s) \/ s[i] \in set THEN i ELSE IndexOf(s, set, i + 1)

MaxFloatExp10 == 308
MinFloatExp10 == -324

\* the float whose decimal has the significant digits ds (no leading or
\* trailing zeros) with the last of them at 10^e
FloatOfDigits(neg, ds, e) ==
    IF ds = <<>> THEN PyFloat(neg, FALSE, <<>>, 0)
    ELSE IF Len(ds) - 1 + e > MaxFloatExp10 THEN PyFloat(neg, TRUE, <<>>, 0)
    ELSE IF Len(ds) - 1 + e < MinFloatExp10 THEN PyFloat(neg, FALSE, <<>>, 0)
    ELSE PyFloat(neg, FALSE, ds, e)

\* the float of a mantissa given as its integer and fraction digits, times 10^exp
FloatOfParts(neg, intPart, frac, exp) ==
    LET Scaled(digits) ==
            FloatOfDigits(neg, RStrip(digits, {ZERO}),
                          exp - Len(frac) + (Len(digits) - Len(RStrip(digits, {ZERO}))))
    IN  Scaled(LStrip(intPart \o frac, {ZERO}))

FloatOfStr(s) ==
    LET Mantissa(neg, mant, exp) ==
            FloatOfParts(neg, SubSeq(mant, 1, IndexOf(mant, {DOT}, 1) - 1),
                         SubSeq(mant, IndexOf(mant, {DOT}, 1) + 1, Len(mant)), exp)
        Body(neg, body) ==
            Mantissa(neg, SubSeq(body, 1, IndexOf(body, {101, 69}, 1) - 1),
                     IF IndexOf(body, {101, 69}, 1) > Len(body) THEN 0
                     ELSE IntOfStr(SubSeq(body, IndexOf(body, {101, 69}, 1) + 1,
                                          Len(body))))
    IN  IF s # <<>> /\ s[1] = DASH THEN Body(TRUE, Tail(s)) ELSE Body(FALSE, s)

(***************************************************************************)
(* Parser.  cx holds what a parse never changes (tokens, options); ps is   *)
(* the parser's mutable state: position, depth, and peak, the largest      *)
(* value self.depth has taken.  The result of a routine is the state it    *)
(* leaves, what it returns and what it raises.                             *)
(***************************************************************************)
ParseError(message, token) == Error("ParseError", message, token.line, token.column)

\* Python's None where a Token is expected
NoToken == Token("NONE", <<>>, None, None)

\* the one LexerError message that contains "Tab character"
TabMessage == "Tab character in indentation"

\* text.replace('\r\n', '\n').replace('\r', '\n')
RECURSIVE ReplaceLineEndings(_)
ReplaceLineEndings(text) ==
    IF text = <<>> THEN <<>>
    ELSE IF text[1] = CR
         THEN IF Len(text) > 1 /\ text[2] = LF
              THEN <<LF>> \o ReplaceLineEndings(Tail(Tail(text)))
              ELSE <<LF>> \o ReplaceLineEndings(Tail(text))
         ELSE <<text[1]>> \o ReplaceLineEndings(Tail(text))

IsComment(token) == token.type = "COMMENT"
NotComment(token) == token.type # "COMMENT"

\* Parser.__init__ after "tokens = list(lexer.tokenize())" returned or raised tk
ParserOf(tk, options) ==
    LET found == SelectSeq(tk.tokens, IsComment) IN
    [tokens |-> SelectSeq(tk.tokens, NotComment),
     comments |-> IF options.preserve_comments
                  THEN [i \in 1..Len(found) |-> found[i].value] ELSE <<>>,
     comment_positions |->
         IF options.preserve_comments /\ options.include_comment_positions
         THEN [i \in 1..Len(found) |->
                 [text |-> found[i].value, line |-> found[i].line,
                  column |-> found[i].column]]
         ELSE <<>>,
     err |-> IF tk.err = NoError THEN NoError
             ELSE IF tk.err.message = TabMessage
             THEN ParseError("Lexer error: " \o tk.err.message, NoToken)
             ELSE IF options.strict_mode
             THEN ParseError("Lexer error: " \o tk.err.message, NoToken)
             ELSE NoError,
     lexerr |-> tk.err]

\* Parser.__init__: the token list, the comments, and the error it raises, if any.
\* The option normalize_line_endings is a non-empty string ("none", "lf" or
\* "crlf"); the code tests its truth.
ParserNew(text0, options) ==
    LET Lex(text) ==
            IF LexerNew(text) # NoError
            THEN [tokens |-> <<>>, comments |-> <<>>, comment_positions |-> <<>>,
                  err |-> LexerNew(text), lexerr |-> LexerNew(text)]
            ELSE ParserOf(Tokenize(text), options)
    IN  Lex(IF options.normalize_line_endings # ""
            THEN ReplaceLineEndings(text0) ELSE text0)

ParserInit == [position |-> 0, depth |-> 0, peak |-> 0]

Ok(ps, value) == [ps |-> ps, value |-> value, err |-> NoError]
Raise(ps, err) == [ps |-> ps, value |-> NoValue, err |-> err]

\* the rest K of a routine after a call that returned r, unless the call raised
Bind(r, K(_)) == IF r.err # NoError THEN Raise(r.ps, r.err) ELSE K(r)

\* the rest K of a routine after an assignment of v
Let(v, K(_)) == K(v)

CurrentToken(cx, ps) ==
    IF ps.position >= Len(cx.tokens) THEN NoToken ELSE cx.tokens[ps.position + 1]

PeekToken(cx, ps) ==
    IF ps.position + 1 >= Len(cx.tokens) THEN NoToken ELSE cx.tokens[ps.position + 2]

\* f"Maximum nesting depth exceeded: {max_depth}", its fixed part
DepthMessage == "Maximum nesting depth exceeded"

\* check_depth raising when the limit is reached, not exceeded
CheckDepthAtLimit(options, depth) ==
    IF options.max_depth # None /\ depth >= options.max_depth
    THEN ParseError(DepthMessage, NoToken)
    ELSE NoError

\* check_depth: the error it raises at this depth, if any
CheckDepth(options, depth) ==
    IF options.max_depth # None /\ depth > options.max_depth
    THEN ParseError(DepthMessage, NoToken)
    ELSE NoError

EnterScope(cx, ps) ==
    [ps |-> [ps EXCEPT !.depth = @ + 1,
                       !.peak = IF ps.depth + 1 > @ THEN ps.depth + 1 ELSE @],
     value |-> NoValue,
     err |-> CheckDepth(cx.options, ps.depth + 1)]

ExitScope(ps) == [ps EXCEPT !.depth = @ - 1]

AdvanceToken(cx, ps) ==
    IF ps.position >= Len(cx.tokens) THEN ps ELSE [ps EXCEPT !.position = @ + 1]

\* expect: returns the token (as value) and advances, or raises at the current token
Expect(cx, ps, type) ==
    LET token == CurrentToken(cx, ps) IN
    IF token = NoToken \/ token.type # type
    THEN [ps |-> ps, value |-> NoValue, err |-> ParseError("Expected token", token)]
    ELSE [ps |-> AdvanceToken(cx, ps), value |-> token, err |-> NoError]

RECURSIVE SkipNewlines(_, _)
SkipNewlines(cx, ps) ==
    IF CurrentToken(cx, ps).type \in {"NEWLINE", "INDENT"}
    THEN SkipNewlines(cx, AdvanceToken(cx, ps))
    ELSE ps

\* the value of a NUMBER token: int(token.value) or float(token.value)
NumberOf(lexeme) ==
    IF \A i \in 1..Len(lexeme) : lexeme[i] \notin {DOT, 101, 69}
    THEN PyInt(IntOfStr(lexeme))
    ELSE FloatOfStr(lexeme)

RECURSIVE ParseValue(_, _)
RECURSIVE FlowArrayLoop(_, _, _)
RECURSIVE FlowObjectLoop(_, _, _)
RECURSIVE BlockArrayLoop(_, _, _)
RECURSIVE BlockObjectLoop(_, _, _)

ParseFlowArray(cx, ps) ==
    Bind(EnterScope(cx, ps), LAMBDA en :
    Bind(Expect(cx, en.ps, "LEFT_BRACKET"), LAMBDA ex :
    Let(SkipNewlines(cx, ex.ps), LAMBDA p1 :
        IF CurrentToken(cx, p1).type = "RIGHT_BRACKET"
        THEN Ok(ExitScope(AdvanceToken(cx, p1)), JYAMLArray(<<>>))
        ELSE FlowArrayLoop(cx, p1, <<>>))))

\* the loop of parse_flow_array without "Allow trailing comma"
FlowArrayNextNoTrailing(cx, p1, items) ==
    LET token == CurrentToken(cx, p1) IN
    IF token = NoToken
    THEN Raise(p1, ParseError("Unexpected end of input in array", NoToken))
    ELSE IF token.type = "RIGHT_BRACKET"
    THEN Ok(ExitScope(AdvanceToken(cx, p1)), JYAMLArray(items))
    ELSE IF token.type = "COMMA"
    THEN FlowArrayLoop(cx, SkipNewlines(cx, AdvanceToken(cx, p1)), items)
    ELSE Raise(p1, ParseError("Expected ',' or ']' in array", token))

\* the loop of parse_flow_array after "items.append(value); self.skip_newlines()"
FlowArrayNext(cx, p1, items) ==
    LET token == CurrentToken(cx, p1) IN
    IF token = NoToken
    THEN Raise(p1, ParseError("Unexpected end of input in array", NoToken))
    ELSE IF token.type = "RIGHT_BRACKET"
    THEN Ok(ExitScope(AdvanceToken(cx, p1)), JYAMLArray(items))
    ELSE IF token.type = "COMMA"
    THEN Let(SkipNewlines(cx, AdvanceToken(cx, p1)), LAMBDA p2 :
             IF CurrentToken(cx, p2).type = "RIGHT_BRACKET"
             THEN Ok(ExitScope(AdvanceToken(cx, p2)), JYAMLArray(items))
             ELSE FlowArrayLoop(cx, p2, items))
    ELSE Raise(p1, ParseError("Expected ',' or ']' in array", token))

FlowArrayLoop(cx, ps, items) ==
    Bind(ParseValue(cx, ps), LAMBDA v :
        FlowArrayNext(cx, SkipNewlines(cx, v.ps), Append(items, v.value)))

ParseFlowObject(cx, ps) ==
    Bind(EnterScope(cx, ps), LAMBDA en :
    Bind(Expect(cx, en.ps, "LEFT_BRACE"), LAMBDA ex :
    Let(SkipNewlines(cx, ex.ps), LAMBDA p1 :
        IF CurrentToken(cx, p1).type = "RIGHT_BRACE"
        THEN Ok(ExitScope(AdvanceToken(cx, p1)), JYAMLObject(<<>>))
        ELSE FlowObjectLoop(cx, p1, <<>>))))

\* the loop of parse_flow_object after "items[key] = value; self.skip_newlines()"
FlowObjectNext(cx, p1, items) ==
    LET token == CurrentToken(cx, p1) IN
    IF token = NoToken
    THEN Raise(p1, ParseError("Unexpected end of input in object", NoToken))
    ELSE IF token.type = "RIGHT_BRACE"
    THEN Ok(ExitScope(AdvanceToken(cx, p1)), JYAMLObject(items))
    ELSE IF token.type = "COMMA"
    THEN Let(SkipNewlines(cx, AdvanceToken(cx, p1)), LAMBDA p2 :
             IF CurrentToken(cx, p2).type = "RIGHT_BRACE"
             THEN Ok(ExitScope(AdvanceToken(cx, p2)), JYAMLObject(items))
             ELSE FlowObjectLoop(cx, p2, items))
    ELSE IF token.type = "STRING" /\ PeekToken(cx, p1).type = "COLON"
    THEN FlowObjectLoop(cx, p1, items)
    ELSE Raise(p1, ParseError("Expected ',' or '}' in object", token))

FlowObjectLoop(cx, ps, items) ==
    Bind(Expect(cx, ps, "STRING"), LAMBDA key_token :
    Bind(Expect(cx, SkipNewlines(cx, key_token.ps), "COLON"), LAMBDA colon :
    Bind(ParseValue(cx, SkipNewlines(cx, colon.ps)), LAMBDA v :
        FlowObjectNext(cx, SkipNewlines(cx, v.ps),
                       DictSet(items, key_token.value.value, v.value)))))

ParseBlockArray(cx, ps) ==
    Bind(EnterScope(cx, ps), LAMBDA en : BlockArrayLoop(cx, en.ps, <<>>))

BlockArrayLoop(cx, ps, items) ==
    IF CurrentToken(cx, ps).type # "DASH"
    THEN Ok(ExitScope(ps), JYAMLArray(items))
    ELSE Bind(ParseValue(cx, SkipNewlines(cx, AdvanceToken(cx, ps))), LAMBDA v :
             BlockArrayLoop(cx, SkipNewlines(cx, v.ps), Append(items, v.value)))

ParseBlockObject(cx, ps) ==
    Bind(EnterScope(cx, ps), LAMBDA en : BlockObjectLoop(cx, en.ps, <<>>))

BlockObjectLoop(cx, ps, items) ==
    IF ~(CurrentToken(cx, ps).type = "STRING" /\ PeekToken(cx, ps).type = "COLON")
    THEN Ok(ExitScope(ps), JYAMLObject(items))
    ELSE Bind(Expect(cx, AdvanceToken(cx, ps), "COLON"), LAMBDA colon :
         Bind(ParseValue(cx, colon.ps), LAMBDA v :
             BlockObjectLoop(cx, SkipNewlines(cx, v.ps),
                             DictSet(items, CurrentToken(cx, ps).value, v.value))))

\* parse_value after "self.skip_newlines()"
ParseValueAt(cx, ps) ==
    LET token == CurrentToken(cx, ps) IN
    IF token = NoToken THEN Raise(ps, ParseError("Unexpected end of input", NoToken))
    ELSE IF token.type = "NULL" THEN Ok(AdvanceToken(cx, ps), JYAMLNull)
    ELSE IF token.type = "TRUE" THEN Ok(AdvanceToken(cx, ps), JYAMLBool(TRUE))
    ELSE IF token.type = "FALSE" THEN Ok(AdvanceToken(cx, ps), JYAMLBool(FALSE))
    ELSE IF token.type = "NUMBER"
    THEN Ok(AdvanceToken(cx, ps), JYAMLNumber(NumberOf(token.value)))
    ELSE IF token.type = "STRING"
    THEN IF PeekToken(cx, ps).type = "COLON"
         THEN ParseBlockObject(cx, ps)
         ELSE Ok(AdvanceToken(cx, ps), JYAMLString(token.value))
    ELSE IF token.type = "LEFT_BRACKET" THEN ParseFlowArray(cx, ps)
    ELSE IF token.type = "LEFT_BRACE" THEN ParseFlowObject(cx, ps)
    ELSE IF token.type = "DASH" THEN ParseBlockArray(cx, ps)
    ELSE Raise(ps, ParseError("Unexpected token", token))

ParseValue(cx, ps) == ParseValueAt(cx, SkipNewlines(cx, ps))

\* Parser.parse without "Ensure we've consumed all tokens"
ParserParseEndUnchecked(cx, p1, value) == Ok(p1, value)

\* Parser.parse after "value = self.parse_value(); self.skip_newlines()"
ParserParseEnd(cx, p1, value) ==
    LET token == CurrentToken(cx, p1) IN
    IF token # NoToken /\ token.type # "EOF"
    THEN Raise(p1, ParseError("Unexpected token after document", token))
    ELSE Ok(p1, value)

\* Parser.parse
ParserParse(cx) ==
    Let(SkipNewlines(cx, ParserInit), LAMBDA p0 :
        IF CurrentToken(cx, p0) = NoToken \/ CurrentToken(cx, p0).type = "EOF"
        THEN Ok(p0, JYAMLNull)
        ELSE Bind(ParseValue(cx, p0), LAMBDA root :
                 ParserParseEnd(cx, SkipNewlines(cx, root.ps), root.value)))

\* parse(text, options=options) after Parser(text, options) returned or raised parser.
\* The document is ParsedDocument(data=..., comments=self.comments): its third
\* field, source_info, keeps its default None, and it has no other field.
ParseWith(parser, options) ==
    IF parser.err # NoError
    THEN [ok |-> FALSE, data |-> NoValue, comments |-> <<>>, source_info |-> None,
          err |-> parser.err, ps |-> ParserInit, lexerr |-> parser.lexerr]
    ELSE Let(ParserParse([tokens |-> parser.tokens, options |-> options]), LAMBDA r :
             [ok |-> r.err = NoError, data |-> r.value,
              comments |-> IF r.err = NoError THEN parser.comments ELSE <<>>,
              source_info |-> None,
              err |-> r.err, ps |-> r.ps, lexerr |-> parser.lexerr])

\* parse(text, options=options): the document returned or the error raised,
\* with the parser's final state
Parse(text, options) == ParseWith(ParserNew(text, options), options)

(***************************************************************************)
(* Converter (loads) and serializer (dumps).  Native Python values are     *)
(* tagged records: None, bool, number (PyInt or PyFloat), str, list, dict  *)
(* and OrderedDict (ordered pairs), Decimal (its digits), and hooked (what *)
(* a hook was called with: the model's hooks return their argument).       *)
(***************************************************************************)
Py(t, v) == [t |-> t, v |-> v]

StrInf == <<105, 110, 102>>

RECURSIVE Zeros(_)
Zeros(n) == IF n <= 0 THEN <<>> ELSE <<ZERO>> \o Zeros(n - 1)

\* str(x) for a float x (repr: the shortest digits; exponent form when the
\* decimal point lies outside -4 < decpt <= 16)
FloatRepr(x) ==
    LET sign == IF x.neg THEN <<DASH>> ELSE <<>>
        n == Len(x.ds)
        decpt == n + x.e
        exp == decpt - 1
        expStr == IF exp < 0 THEN <<DASH>> ELSE <<PLUS>>
        absExp == IF exp < 0 THEN 0 - exp ELSE exp
        expDigits == IF absExp < 10 THEN <<ZERO>> \o StrOfNat(absExp)
                     ELSE StrOfNat(absExp)
    IN  IF x.inf THEN sign \o StrInf
        ELSE IF n = 0 THEN sign \o <<ZERO, DOT, ZERO>>
        ELSE IF decpt > 16 \/ decpt < -3
        THEN sign \o <<x.ds[1]>>
             \o (IF n > 1 THEN <<DOT>> \o SubSeq(x.ds, 2, n) ELSE <<>>)
             \o <<101>> \o expStr \o expDigits
        ELSE IF decpt <= 0 THEN sign \o <<ZERO, DOT>> \o Zeros(0 - decpt) \o x.ds
        ELSE IF decpt < n
        THEN sign \o SubSeq(x.ds, 1, decpt) \o <<DOT>> \o SubSeq(x.ds, decpt + 1, n)
        ELSE sign \o x.ds \o Zeros(decpt - n) \o <<DOT, ZERO>>

\* str(value.value) for the value of a JYAMLNumber
NumberStr(n) == IF n.k = "int" THEN StrOfInt(n.n) ELSE FloatRepr(n)

DefaultParseOptions ==
    [strict_mode |-> TRUE, preserve_comments |-> TRUE,
     allow_duplicate_keys |-> FALSE, max_depth |-> 1000,
     include_comment_positions |-> FALSE, normalize_line_endings |-> "lf"]

\* LoadOptions(): the hooks are None (FALSE) or a callable (TRUE)
DefaultLoadOptions ==
    [as_dict |-> TRUE, as_native_types |-> TRUE, parse_numbers |-> TRUE,
     parse_booleans |-> TRUE, parse_null |-> TRUE, use_decimal |-> FALSE,
     use_ordered_dict |-> FALSE, object_hook |-> FALSE, number_hook |-> FALSE,
     parse_options |-> DefaultParseOptions]

RECURSIVE convert_to_python(_, _)
convert_to_python(value, options) ==
    IF value.t = "null"
    THEN IF options.parse_null THEN Py("None", <<>>) ELSE Py("str", StrNull)
    ELSE IF value.t = "bool"
    THEN IF options.parse_booleans /\ options.as_native_types THEN Py("bool", value.v)
         ELSE Py("str", IF value.v THEN StrTrue ELSE StrFalse)
    ELSE IF value.t = "number"
    THEN IF options.parse_numbers /\ options.as_native_types
         THEN IF options.number_hook THEN Py("hooked", value.v)
              ELSE IF options.use_decimal /\ value.v.k = "float"
              THEN Py("Decimal", FloatRepr(value.v))
              ELSE Py("number", value.v)
         ELSE Py("str", NumberStr(value.v))
    ELSE IF value.t = "string" THEN Py("str", value.v)
    ELSE IF value.t = "array"
    THEN Py("list", [i \in 1..Len(value.v) |-> convert_to_python(value.v[i], options)])
    ELSE LET pairs == [i \in 1..Len(value.v) |->
                         <<value.v[i][1], convert_to_python(value.v[i][2], options)>>]
         IN  IF options.object_hook THEN Py("hooked", pairs)
             ELSE IF options.use_ordered_dict THEN Py("OrderedDict", pairs)
             ELSE Py("dict", pairs)

\* loads(text, options=options): the value returned or the error raised
loads(text, options) ==
    LET Convert(document) ==
            IF ~document.ok
            THEN [ok |-> FALSE, value |-> Py("none", <<>>), err |-> document.err]
            ELSE [ok |-> TRUE, value |-> convert_to_python(document.data, options),
                  err |-> NoError]
    IN  Convert(Parse(text, options.parse_options))

DefaultDumpOptions ==
    [style |-> "auto", indent |-> 2, quote_style |-> "double",
     escape_unicode |-> FALSE, sort_keys |-> FALSE, line_ending |-> "lf",
     ensure_ascii |-> FALSE]

\* s.replace(c, repl) for a single character c
RECURSIVE Replace(_, _, _)
Replace(s, c, repl) ==
    IF s = <<>> THEN <<>>
    ELSE (IF s[1] = c THEN repl ELSE <<s[1]>>) \o Replace(Tail(s), c, repl)

HexDigit(d) == IF d < 10 THEN ZERO + d ELSE 87 + d

\* f"{n:04x}"
RECURSIVE HexStr(_)
HexStr(n) == IF n < 16 THEN <<HexDigit(n)>> ELSE Append(HexStr(n \div 16), HexDigit(n % 16))

Hex04(n) == LET h == HexStr(n) IN Zeros(4 - Len(h)) \o h

RECURSIVE EscapeNonAscii(_)
EscapeNonAscii(s) ==
    IF s = <<>> THEN <<>>
    ELSE (IF s[1] > 127 THEN <<BACKSLASH, 117>> \o Hex04(s[1]) ELSE <<s[1]>>)
         \o EscapeNonAscii(Tail(s))

escape_string(s, options) ==
    LET r1 == Replace(s, BACKSLASH, <<BACKSLASH, BACKSLASH>>)
        r2 == Replace(r1, DQUOTE, <<BACKSLASH, DQUOTE>>)
        r3 == Replace(r2, BS, <<BACKSLASH, 98>>)
        r4 == Replace(r3, FF, <<BACKSLASH, 102>>)
        r5 == Replace(r4, LF, <<BACKSLASH, 110>>)
        r6 == Replace(r5, CR, <<BACKSLASH, 114>>)
        r7 == Replace(r6, TAB, <<BACKSLASH, 116>>)
    IN  IF options.escape_unicode \/ options.ensure_ascii THEN EscapeNonAscii(r7)
        ELSE r7

should_use_block_style_object(obj, depth) ==
    IF depth > 0 THEN FALSE
    ELSE IF Len(obj) > 3 THEN TRUE
    ELSE IF \E i \in 1..Len(obj) : obj[i][2].t \in {"dict", "OrderedDict", "list"}
    THEN TRUE
    ELSE \E i \in 1..Len(obj) : obj[i][2].t = "str" /\ Len(obj[i][2].v) > 50

\* s < t for two str, as sorted() compares the keys
RECURSIVE StrLess(_, _)
StrLess(s, t) ==
    IF t = <<>> THEN FALSE
    ELSE IF s = <<>> THEN TRUE
    ELSE IF s[1] # t[1] THEN s[1] < t[1]
    ELSE StrLess(Tail(s), Tail(t))

\* sorted(obj.items()): the keys of a dict are distinct
RECURSIVE SortedItems(_)
SortedItems(items) ==
    IF items = <<>> THEN <<>>
    ELSE LET m == CHOOSE i \in 1..Len(items) :
                    \A j \in 1..Len(items) : j = i \/ StrLess(items[i][1], items[j][1])
         IN  <<items[m]>>
             \o SortedItems([k \in 1..(Len(items) - 1) |->
                               IF k < m THEN items[k] ELSE items[k + 1]])

RECURSIVE serialize_with_options(_, _, _)

serialize_array(arr, options, depth) ==
    IF arr = <<>> THEN <<LEFT_BRACKET, RIGHT_BRACKET>>
    ELSE <<LEFT_BRACKET>>
         \o Join([i \in 1..Len(arr) |-> serialize_with_options(arr[i], options, depth + 1)],
                 <<COMMA, SP>>)
         \o <<RIGHT_BRACKET>>

\* _serialize_object from "items = obj.items()" on
serialize_items(obj, items, options, depth) ==
    LET use_block == IF options.style = "block" /\ depth = 0 THEN TRUE
                     ELSE IF options.style = "flow" THEN FALSE
                     ELSE IF options.style = "auto"
                     THEN should_use_block_style_object(obj, depth)
                     ELSE FALSE
        Pair(item) == serialize_with_options(Py("str", item[1]), options, depth + 1)
                      \o <<COLON, SP>>
                      \o serialize_with_options(item[2], options, depth + 1)
        Lines(pairs) == IF use_block THEN Join(pairs, <<LF>>)
                        ELSE <<LEFT_BRACE>> \o Join(pairs, <<COMMA, SP>>)
                             \o <<RIGHT_BRACE>>
    IN  Lines([i \in 1..Len(items) |-> Pair(items[i])])

serialize_object(obj, options, depth) ==
    IF obj = <<>> THEN <<LEFT_BRACE, RIGHT_BRACE>>
    ELSE serialize_items(obj, IF options.sort_keys THEN SortedItems(obj) ELSE obj,
                         options, depth)

serialize_with_options(obj, options, depth) ==
    IF obj.t = "None" THEN StrNull
    ELSE IF obj.t = "bool" THEN (IF obj.v THEN StrTrue ELSE StrFalse)
    ELSE IF obj.t = "number" THEN NumberStr(obj.v)
    ELSE IF obj.t = "Decimal" THEN obj.v
    ELSE IF obj.t = "str"
    THEN LET quote_char == IF options.quote_style \in {"double", "auto"}
                           THEN DQUOTE ELSE SQUOTE
         IN  <<quote_char>> \o escape_string(obj.v, options) \o <<quote_char>>
    ELSE IF obj.t = "list" THEN serialize_array(obj.v, options, depth)
    ELSE serialize_object(obj.v, options, depth)

\* dumps(obj, options=options)
dumps(obj, options) == serialize_with_options(obj, options, 0)

(***************************************************************************)
(* ParseOptions (options.py; parser.py holds a second, identical class).   *)
(* A pydantic model with validate_assignment=True: the field constraints   *)
(* and the "after" validator run when an instance is constructed and when  *)
(* a field is assigned.  The arguments considered are of the fields' types.*)
(***************************************************************************)
OptionFields == DOMAIN DefaultParseOptions

\* max_depth without the constraint le=100000
MaxDepthOkUnbounded(v) == v = None \/ v > 0

\* max_depth: Field(gt=0, le=100000) and validate_max_depth; None is allowed
MaxDepthOk(v) == v = None \/ (v > 0 /\ v <= 100000)

\* the validation of one field's value
FieldOk(f, v) ==
    IF f = "max_depth" THEN MaxDepthOk(v)
    ELSE IF f = "normalize_line_endings" THEN v \in {"none", "lf", "crlf"}
    ELSE v \in BOOLEAN

\* validate_consistency raises
ConsistencyError(o) ==
    \/ o.strict_mode /\ o.allow_duplicate_keys
    \/ o.include_comment_positions /\ ~o.preserve_comments

\* ParseOptions(**kwargs), kwargs giving the fields of the set given their
\* values in candidate: the instance, unless a validator raises
ParseOptionsNew(given, candidate) ==
    LET o == [f \in OptionFields |->
                 IF f \in given THEN candidate[f] ELSE DefaultParseOptions[f]]
    IN  [ok |-> (\A f \in OptionFields : FieldOk(f, o[f])) /\ ~ConsistencyError(o),
         value |-> o]

\* JYAMLMode.strict(), permissive(), fast(), debug()
PresetArgs ==
    [strict |-> [strict_mode |-> TRUE, preserve_comments |-> TRUE, max_depth |-> 1000],
     permissive |-> [strict_mode |-> FALSE, preserve_comments |-> TRUE,
                     allow_duplicate_keys |-> TRUE, max_depth |-> 10000],
     fast |-> [strict_mode |-> TRUE, preserve_comments |-> FALSE, max_depth |-> 100],
     debug |-> [strict_mode |-> FALSE, preserve_comments |-> TRUE,
                include_comment_positions |-> TRUE, allow_duplicate_keys |-> TRUE]]

\* ParseOptions.from_preset(preset): an unknown name raises ValueError
from_preset(preset) ==
    IF preset \notin DOMAIN PresetArgs
    THEN [ok |-> FALSE, value |-> DefaultParseOptions]
    ELSE ParseOptionsNew(DOMAIN PresetArgs[preset], PresetArgs[preset])

\* instance.f = v: the outcomes, each [ok, value] with value the instance
\* afterwards.  A value the field rejects leaves the instance as it was.
\* The "after" validator runs on the instance with the new value; when it
\* raises, pydantic may already have stored the value, or not.
SetAttr(o, f, v) ==
    IF ~FieldOk(f, v) THEN {[ok |-> FALSE, value |-> o]}
    ELSE IF ConsistencyError([o EXCEPT ![f] = v])
    THEN {[ok |-> FALSE, value |-> o], [ok |-> FALSE, value |-> [o EXCEPT ![f] = v]]}
    ELSE {[ok |-> TRUE, value |-> [o EXCEPT ![f] = v]]}

(***************************************************************************)
(* The state machine: a caller holds a text and parse options, calls       *)
(* parse, then loads, then dumps on the loaded value and loads on the      *)
(* dumped text; or it runs the lexer alone on the text.                    *)
(***************************************************************************)
VARIABLES text, options, load_options, phase, doc, loaded, style, dumped, reloaded,
          lexed

vars ==
    <<text, options, load_options, phase, doc, loaded, style, dumped, reloaded, lexed>>

\* the number of fragments a text is made of, at most, in each family of texts
MaxFrags == 4
MaxLexFrags == 4
MaxPairs == 5
MaxNumFrags == 4
MaxJsonFrags == 4
MaxTabFrags == 4
MaxEscapes == 3
MaxLines == 4
MaxFlowFrags == 4
MaxCommentFrags == 4
MaxBlockLines == 4
MaxCrFrags == 4

\* the characters of a text
Range(s) == {s[i] : i \in 1..Len(s)}

\* the concatenation of a sequence of fragments
RECURSIVE Concat(_)
Concat(fs) == IF fs = <<>> THEN <<>> ELSE fs[1] \o Concat(Tail(fs))

\* the texts made of at most n of the fragments
TextsOver(frags, n) ==
    UNION { {Concat(fs) : fs \in [1..k -> frags]} : k \in 0..n }

\* containers, an empty array, a key, a scalar, a block-array dash, a comma
StructureFrags ==
    { <<LEFT_BRACKET>>, <<RIGHT_BRACKET>>, <<LEFT_BRACE>>, <<RIGHT_BRACE>>,
      <<COMMA>>, <<DASH, SP>>, <<49>>, <<LEFT_BRACKET, RIGHT_BRACKET>>,
      <<DQUOTE, 97, DQUOTE, COLON>> }

\* characters: a quote, a letter, a space, a backslash, n, a tab, a BOM, @, 1,
\* and the escape A
LexFrags ==
    { <<DQUOTE>>, <<97>>, <<SP>>, <<BACKSLASH>>, <<110>>, <<TAB>>, <<BOM>>, <<64>>,
      <<49>>, <<BACKSLASH, 117, 48, 48, 52, 49>> }

\* braces, a comma, and the pairs "a":1  "b":2  "a":3  " a":4
PairFrags ==
    { <<LEFT_BRACE>>, <<RIGHT_BRACE>>, <<COMMA>>,
      <<DQUOTE, 97, DQUOTE, COLON, 49>>, <<DQUOTE, 98, DQUOTE, COLON, 50>>,
      <<DQUOTE, 97, DQUOTE, COLON, 51>>, <<DQUOTE, SP, 97, DQUOTE, COLON, 52>> }

\* number lexemes (1, 9, 0, -, .5, e99), brackets, a comma, a string
NumFrags ==
    { <<49>>, <<57>>, <<ZERO>>, <<DASH>>, <<DOT, 53>>, <<101, 57, 57>>,
      <<LEFT_BRACKET>>, <<RIGHT_BRACKET>>, <<COMMA>>, <<DQUOTE, 97, DQUOTE>> }

\* JSON: brackets, braces, a comma, the strings "a" and " a", the key " b", 1,
\* true, a space, a tab, and a string of two escapes (A and a newline)
JsonFrags ==
    { <<LEFT_BRACKET>>, <<RIGHT_BRACKET>>, <<LEFT_BRACE>>, <<RIGHT_BRACE>>,
      <<COMMA>>, <<DQUOTE, 97, DQUOTE>>, <<DQUOTE, SP, 97, DQUOTE>>,
      <<DQUOTE, SP, 98, DQUOTE, COLON>>, <<49>>, <<116, 114, 117, 101>>, <<SP>>,
      <<TAB>>,
      <<DQUOTE, BACKSLASH, 117, 48, 48, 52, 49, BACKSLASH, 110, DQUOTE>> }

\* a tab, a space, a newline, 1, a quote, #, a, a comma
TabFrags ==
    { <<TAB>>, <<SP>>, <<LF>>, <<49>>, <<DQUOTE>>, <<HASH>>, <<97>>, <<COMMA>> }

\* the escapes of the high surrogates D800, DBFF, d83d, of the low surrogates
\* DC00, DFFF, de80, of D7FF, E000 and 0041, the letter a, and the cut escape \uD8
SurrogateFrags ==
    { <<BACKSLASH, 117, 68, 56, 48, 48>>, <<BACKSLASH, 117, 68, 66, 70, 70>>,
      <<BACKSLASH, 117, 100, 56, 51, 100>>,
      <<BACKSLASH, 117, 68, 67, 48, 48>>, <<BACKSLASH, 117, 68, 70, 70, 70>>,
      <<BACKSLASH, 117, 100, 101, 56, 48>>,
      <<BACKSLASH, 117, 68, 55, 70, 70>>, <<BACKSLASH, 117, 69, 48, 48, 48>>,
      <<BACKSLASH, 117, 48, 48, 52, 49>>, <<97>>, <<BACKSLASH, 117, 68, 56>> }

\* the headers |  |-  >  >-  of a multiline scalar, and the lines "  1",
\* "    2", "", " 3" and, without a newline, "4"
ScalarFrags ==
    { <<PIPE, LF>>, <<PIPE, DASH, LF>>, <<GREATER, LF>>, <<GREATER, DASH, LF>>,
      <<SP, SP, 49, LF>>, <<SP, SP, SP, SP, 50, LF>>, <<LF>>, <<SP, 51, LF>>,
      <<52>> }

\* brackets, braces, a comma, 1, the pairs "a":1 and "b":2, a newline
FlowFrags ==
    { <<LEFT_BRACKET>>, <<RIGHT_BRACKET>>, <<LEFT_BRACE>>, <<RIGHT_BRACE>>,
      <<COMMA>>, <<49>>, <<DQUOTE, 97, DQUOTE, COLON, 49>>,
      <<DQUOTE, 98, DQUOTE, COLON, 50>>, <<LF>> }

\* #, a space, a newline, 1, a quote, a, the key "a": and the string "#"
CommentFrags ==
    { <<HASH>>, <<SP>>, <<LF>>, <<49>>, <<DQUOTE>>, <<97>>,
      <<DQUOTE, 97, DQUOTE, COLON>>, <<DQUOTE, HASH, DQUOTE>> }

\* the lines  "a":  |  "b":1 indented by 2  |  "c":2  |  "d":3 indented by 4  |
\* "e": indented by 2
BlockFrags ==
    { <<DQUOTE, 97, DQUOTE, COLON, LF>>,
      <<SP, SP, DQUOTE, 98, DQUOTE, COLON, 49, LF>>,
      <<DQUOTE, 99, DQUOTE, COLON, 50, LF>>,
      <<SP, SP, SP, SP, DQUOTE, 100, DQUOTE, COLON, 51, LF>>,
      <<SP, SP, DQUOTE, 101, DQUOTE, COLON, LF>> }

\* a carriage return, a newline, 1, the brackets, a comma, a quote
CrFrags ==
    { <<CR>>, <<LF>>, <<49>>, <<LEFT_BRACKET>>, <<RIGHT_BRACKET>>, <<COMMA>>,
      <<DQUOTE>> }

OptionsWith(strict, depth) ==
    [DefaultParseOptions EXCEPT !.strict_mode = strict,
                                !.allow_duplicate_keys = ~strict,
                                !.max_depth = depth]

NoDoc ==
    [ok |-> FALSE, data |-> NoValue, comments |-> <<>>, source_info |-> None,
     err |-> NoError, ps |-> ParserInit, lexerr |-> NoError]

NoLoad == [ok |-> FALSE, value |-> Py("none", <<>>), err |-> NoError]

NoLex == [tokens |-> <<>>, err |-> NoError]

\* a text, parse options, and load options that differ from LoadOptions() in
\* the fields the caller sets (parse_options is given at the call)
InitLoading(texts, optionSet, loadSet) ==
    /\ text \in texts
    /\ options \in optionSet
    /\ load_options \in loadSet
    /\ phase = "input"
    /\ doc = NoDoc
    /\ loaded = NoLoad
    /\ style = ""
    /\ dumped = <<>>
    /\ reloaded = NoLoad
    /\ lexed = NoLex

InitWith(texts, optionSet) == InitLoading(texts, optionSet, {DefaultLoadOptions})

Init ==
    InitWith(TextsOver(StructureFrags, MaxFrags),
             {OptionsWith(TRUE, d) : d \in {1, 2, None}})

InitLex ==
    InitWith(TextsOver(LexFrags, MaxLexFrags),
             {OptionsWith(strict, 1000) : strict \in BOOLEAN})

InitPairs ==
    InitWith(TextsOver(PairFrags, MaxPairs),
             {OptionsWith(strict, 1000) : strict \in BOOLEAN})

\* LoadOptions() and LoadOptions(parse_numbers=False)
InitNum ==
    InitLoading(TextsOver(NumFrags, MaxNumFrags), {DefaultParseOptions},
                {DefaultLoadOptions, [DefaultLoadOptions EXCEPT !.parse_numbers = FALSE]})

InitJson == InitWith(TextsOver(JsonFrags, MaxJsonFrags), {DefaultParseOptions})

\* quoted literals
InitSurrogate ==
    InitWith({<<DQUOTE>> \o body \o <<DQUOTE>> :
                 body \in TextsOver(SurrogateFrags, MaxEscapes)},
             {DefaultParseOptions})

InitScalar == InitWith(TextsOver(ScalarFrags, MaxLines), {DefaultParseOptions})

InitTab ==
    InitWith(TextsOver(TabFrags, MaxTabFrags),
             {OptionsWith(strict, 1000) : strict \in BOOLEAN})

InitFlow == InitWith(TextsOver(FlowFrags, MaxFlowFrags), {DefaultParseOptions})

InitBlock == InitWith(TextsOver(BlockFrags, MaxBlockLines), {DefaultParseOptions})

\* the default options, and the options that differ from them in
\* preserve_comments, in include_comment_positions, in strict_mode
InitComment ==
    InitWith(TextsOver(CommentFrags, MaxCommentFrags),
             { DefaultParseOptions,
               [DefaultParseOptions EXCEPT !.preserve_comments = FALSE],
               [DefaultParseOptions EXCEPT !.include_comment_positions = TRUE],
               [DefaultParseOptions EXCEPT !.strict_mode = FALSE] })

\* doc = parse(text, options=options)
ParseCall ==
    /\ phase = "input"
    /\ doc' = Parse(text, options)
    /\ phase' = "parsed"
    /\ UNCHANGED <<text, options, loaded, style, dumped, reloaded, lexed, load_options>>

\* loaded = loads(text, options=load_options), load_options holding the parse
\* options as its parse_options
LoadsCall ==
    /\ phase = "parsed"
    /\ loaded' = loads(text, [load_options EXCEPT !.parse_options = options])
    /\ phase' = "loaded"
    /\ UNCHANGED <<text, options, doc, style, dumped, reloaded, lexed, load_options>>

\* dumped = dumps(loaded, style=s)
DumpsCall ==
    /\ phase = "loaded"
    /\ loaded.ok
    /\ \E s \in {"flow", "block", "auto"} :
          /\ style' = s
          /\ dumped' = dumps(loaded.value, [DefaultDumpOptions EXCEPT !.style = s])
    /\ phase' = "dumped"
    /\ UNCHANGED <<text, options, doc, loaded, reloaded, lexed, load_options>>

\* reloaded = loads(dumped)
ReloadCall ==
    /\ phase = "dumped"
    /\ reloaded' = loads(dumped, DefaultLoadOptions)
    /\ phase' = "reloaded"
    /\ UNCHANGED <<text, options, doc, loaded, style, dumped, lexed, load_options>>

\* lexed = the tokens of "for token in Lexer(text).tokenize()", and the
\* LexerError that ended the loop, if any
TokenizeCall ==
    /\ phase = "input"
    /\ lexed' = LexerRun(text)
    /\ phase' = "tokenized"
    /\ UNCHANGED <<text, options, doc, loaded, style, dumped, reloaded, load_options>>

Next == ParseCall \/ LoadsCall \/ DumpsCall \/ ReloadCall \/ TokenizeCall

Spec == Init /\ [][Next]_vars

SpecLex == InitLex /\ [][Next]_vars

SpecPairs == InitPairs /\ [][Next]_vars

SpecNum == InitNum /\ [][Next]_vars

SpecJson == InitJson /\ [][Next]_vars

SpecTab == InitTab /\ [][Next]_vars

SpecSurrogate == InitSurrogate /\ [][Next]_vars

SpecScalar == InitScalar /\ [][Next]_vars

SpecFlow == InitFlow /\ [][Next]_vars

SpecComment == InitComment /\ [][Next]_vars

SpecBlock == InitBlock /\ [][Next]_vars

\* texts with carriage returns, parsed with normalize_line_endings "lf" (the
\* default) and "none"
InitCr ==
    InitWith(TextsOver(CrFrags, MaxCrFrags),
             { DefaultParseOptions,
               [DefaultParseOptions EXCEPT !.normalize_line_endings = "none"] })

SpecCr == InitCr /\ [][Next]_vars

(***************************************************************************)
(* The options machine: a caller holds a ParseOptions instance, first      *)
(* ParseOptions(), and constructs another, takes a preset, or assigns a    *)
(* field.  phase tells whether the last operation raised.                  *)
(***************************************************************************)
\* the values passed for max_depth and for normalize_line_endings
DepthArgs == {None, -1, 0, 1, 100000, 100001}
LineEndingArgs == {"none", "lf", "cr"}

ArgsOf(f) ==
    IF f = "max_depth" THEN DepthArgs
    ELSE IF f = "normalize_line_endings" THEN LineEndingArgs
    ELSE BOOLEAN

InitOptions ==
    /\ text = <<>>
    /\ options = DefaultParseOptions
    /\ load_options = DefaultLoadOptions
    /\ phase = "options"
    /\ doc = NoDoc
    /\ loaded = NoLoad
    /\ style = ""
    /\ dumped = <<>>
    /\ reloaded = NoLoad
    /\ lexed = NoLex

\* what an operation that returned or raised r leaves
OptionsAfter(r) ==
    /\ options' = r.value
    /\ phase' = IF r.ok THEN "options" ELSE "options_error"
    /\ UNCHANGED <<text, doc, loaded, style, dumped, reloaded, lexed, load_options>>

\* options = ParseOptions(**kwargs); when it raises the caller keeps its instance
ConstructCall ==
    /\ phase \in {"options", "options_error"}
    /\ \E given \in SUBSET OptionFields :
       \E sm \in BOOLEAN, pc \in BOOLEAN, adk \in BOOLEAN, icp \in BOOLEAN :
       \E md \in DepthArgs, nle \in LineEndingArgs :
          LET Made(r) == OptionsAfter(IF r.ok THEN r
                                      ELSE [ok |-> FALSE, value |-> options])
          IN  Made(ParseOptionsNew(given,
                       [strict_mode |-> sm, preserve_comments |-> pc,
                        allow_duplicate_keys |-> adk, max_depth |-> md,
                        include_comment_positions |-> icp,
                        normalize_line_endings |-> nle]))

\* options = ParseOptions.from_preset(preset)
PresetCall ==
    /\ phase \in {"options", "options_error"}
    /\ \E preset \in {"strict", "permissive", "fast", "debug", "default"} :
          LET Made(r) == OptionsAfter(IF r.ok THEN r
                                      ELSE [ok |-> FALSE, value |-> options])
          IN  Made(from_preset(preset))

\* options.f = v
AssignCall ==
    /\ phase \in {"options", "options_error"}
    /\ \E f \in OptionFields : \E v \in ArgsOf(f) :
       \E r \in SetAttr(options, f, v) : OptionsAfter(r)

NextOptions == ConstructCall \/ PresetCall \/ AssignCall

SpecOptions == InitOptions /\ [][NextOptions]_vars

(***************************************************************************)
(* Claims                                                                  *)
(***************************************************************************)
IsDepthError(d) == ~d.ok /\ d.err.message = DepthMessage

\* the number of containers open at the deepest point of a value
RECURSIVE Nesting(_)
Nesting(value) ==
    IF value.t = "array"
    THEN 1 + (IF value.v = <<>> THEN 0
              ELSE LET ns == {Nesting(value.v[i]) : i \in 1..Len(value.v)} IN
                   CHOOSE n \in ns : \A m \in ns : m <= n)
    ELSE IF value.t = "object"
    THEN 1 + (IF value.v = <<>> THEN 0
              ELSE LET ns == {Nesting(value.v[i][2]) : i \in 1..Len(value.v)} IN
                   CHOOSE n \in ns : \A m \in ns : m <= n)
    ELSE 0

\* the parse of the same text with max_depth=None
Unlimited == Parse(text, [options EXCEPT !.max_depth = None])

\* the tokens the parser works on
SourceTokens == ParserNew(text, options).tokens

\* C1: for a text with no other error (it parses with max_depth=None), parse
\* with max_depth = N raises the depth error if and only if a container is
\* entered while N containers are open, that is, the depth counter of the
\* unlimited parse reaches N + 1; otherwise it returns what the unlimited parse
\* returns.  In a parse that succeeds the depth counter never exceeds N, is at
\* least the nesting of the value returned, and ends at 0.  With max_depth=None
\* no depth error is raised.  (Stated where parse has just returned: doc does
\* not change afterwards.)
C1_DepthLimit ==
    LET Holds(unlimited) ==
            /\ unlimited.ok /\ options.max_depth # None =>
                  /\ IsDepthError(doc) <=> unlimited.ps.peak > options.max_depth
                  /\ ~IsDepthError(doc) => doc.ok /\ doc.data = unlimited.data
            /\ doc.ok =>
                  /\ doc.ps.depth = 0
                  /\ Nesting(doc.data) <= doc.ps.peak
                  /\ options.max_depth # None => doc.ps.peak <= options.max_depth
            /\ options.max_depth = None => ~IsDepthError(doc)
    IN  phase = "parsed" => Holds(Unlimited)

\* max_depth = 1 and a text that parses when unlimited to an array of two
\* items, one of them a container: that container is entered while one is
\* open, and the depth error is raised
C1_Witness ==
    LET Closed(unlimited) ==
            /\ unlimited.ok
            /\ unlimited.ps.peak = options.max_depth + 1
            /\ Nesting(unlimited.data) = unlimited.ps.peak
            /\ unlimited.data.t = "array" /\ Len(unlimited.data.v) = 2
    IN  phase = "parsed" /\ options.max_depth = 1 /\ IsDepthError(doc)
        /\ Closed(Unlimited)

\* the positions, in the token list, of the object keys, and of those that
\* repeat an earlier key
KeyPositions(tokens) ==
    {i \in 1..(Len(tokens) - 1) :
        tokens[i].type = "STRING" /\ tokens[i + 1].type = "COLON"}

RepeatedKeys(tokens) ==
    {j \in KeyPositions(tokens) :
        \E i \in KeyPositions(tokens) : i < j /\ tokens[i].value = tokens[j].value}

\* the parse of the same text with duplicate keys allowed
Permissive ==
    Parse(text, [options EXCEPT !.strict_mode = FALSE, !.allow_duplicate_keys = TRUE])

\* C2: in strict mode, a text that is one object (it parses as one when
\* duplicates are allowed) in which a key occurs twice raises an error at the
\* line and column of the second occurrence, and returns no document
C2_DuplicateKeyRejected ==
    LET Second(tokens) ==
            tokens[CHOOSE j \in RepeatedKeys(tokens) :
                       \A k \in RepeatedKeys(tokens) : j <= k]
        Rejected(second) ==
            ~doc.ok /\ doc.err.line = second.line /\ doc.err.column = second.column
    IN  phase \notin {"input", "tokenized"} /\ options.strict_mode
        /\ RepeatedKeys(SourceTokens) # {}
        /\ Permissive.ok /\ Permissive.data.t = "object"
        => Rejected(Second(SourceTokens))

\* C3: when the lexer raises a LexerError on the text, parse raises an error,
\* whatever strict_mode is: it returns no document
C3_LexicalErrorIsFatal ==
    phase # "input" /\ doc.lexerr # NoError => ~doc.ok

(***************************************************************************)
(* The reference JSON reader (RFC 8259), for texts without surrogate       *)
(* escapes: the value, as Python's json.loads builds it, or not ok.  r is  *)
(* [ok, pos, value], pos the index after what was read.                    *)
(***************************************************************************)
JsonFail == [ok |-> FALSE, pos |-> 0, value |-> Py("none", <<>>)]
JsonOk(pos, value) == [ok |-> TRUE, pos |-> pos, value |-> value]
JsonBind(r, K(_)) == IF ~r.ok THEN JsonFail ELSE K(r)

RECURSIVE JsonSkip(_, _)
JsonSkip(t, i) ==
    IF i <= Len(t) /\ t[i] \in {SP, TAB, LF, CR} THEN JsonSkip(t, i + 1) ELSE i

JsonEscapes ==
    (DQUOTE :> DQUOTE) @@ (BACKSLASH :> BACKSLASH) @@ (SLASH :> SLASH)
    @@ (98 :> BS) @@ (102 :> FF) @@ (110 :> LF) @@ (114 :> CR) @@ (116 :> TAB)

JsonHex4(t, i) ==
    ((HexValue(t[i]) * 16 + HexValue(t[i + 1])) * 16 + HexValue(t[i + 2])) * 16
    + HexValue(t[i + 3])

\* a string, from the character after its opening quote
RECURSIVE JsonString(_, _, _)
JsonString(t, i, acc) ==
    IF i > Len(t) \/ t[i] < 32 THEN JsonFail
    ELSE IF t[i] = DQUOTE THEN JsonOk(i + 1, Py("str", acc))
    ELSE IF t[i] # BACKSLASH THEN JsonString(t, i + 1, Append(acc, t[i]))
    ELSE IF i + 1 > Len(t) THEN JsonFail
    ELSE IF t[i + 1] \in DOMAIN JsonEscapes
    THEN JsonString(t, i + 2, Append(acc, JsonEscapes[t[i + 1]]))
    ELSE IF t[i + 1] = 117 /\ i + 5 <= Len(t)
            /\ (\A k \in (i + 2)..(i + 5) : t[k] \in HexDigits)
            /\ ~(55296 <= JsonHex4(t, i + 2) /\ JsonHex4(t, i + 2) <= 57343)
    THEN JsonString(t, i + 6, Append(acc, JsonHex4(t, i + 2)))
    ELSE JsonFail

\* the index after the digits that start at i
RECURSIVE JsonDigits(_, _)
JsonDigits(t, i) == IF i <= Len(t) /\ t[i] \in Digits THEN JsonDigits(t, i + 1) ELSE i

\* a number: -? (0 | [1-9][0-9]*) (. [0-9]+)? ([eE] [+-]? [0-9]+)?
JsonNumber(t, i) ==
    LET Is(k, set) == k <= Len(t) /\ t[k] \in set
        Exp(k) == IF ~Is(k, {101, 69}) THEN k
                  ELSE IF Is(k + 1, {PLUS, DASH})
                  THEN (IF Is(k + 2, Digits) THEN JsonDigits(t, k + 2) ELSE 0)
                  ELSE (IF Is(k + 1, Digits) THEN JsonDigits(t, k + 1) ELSE 0)
        Frac(k) == IF ~Is(k, {DOT}) THEN Exp(k)
                   ELSE IF Is(k + 1, Digits) THEN Exp(JsonDigits(t, k + 1)) ELSE 0
        Whole(k) == IF Is(k, {ZERO}) THEN Frac(k + 1)
                    ELSE IF Is(k, Digits) THEN Frac(JsonDigits(t, k)) ELSE 0
        Value(end) == IF end = 0 THEN JsonFail
                      ELSE JsonOk(end, Py("number", NumberOf(SubSeq(t, i, end - 1))))
    IN  Value(IF Is(i, {DASH}) THEN Whole(i + 1) ELSE Whole(i))

JsonLiteral(t, i, word, value) ==
    IF i + Len(word) - 1 <= Len(t) /\ SubSeq(t, i, i + Len(word) - 1) = word
    THEN JsonOk(i + Len(word), value)
    ELSE JsonFail

RECURSIVE JsonValue(_, _)
RECURSIVE JsonElements(_, _, _)
RECURSIVE JsonMembers(_, _, _)

\* the elements of an array, from the first
JsonElements(t, i, acc) ==
    JsonBind(JsonValue(t, i), LAMBDA v :
    Let(JsonSkip(t, v.pos), LAMBDA j :
        IF j > Len(t) THEN JsonFail
        ELSE IF t[j] = COMMA THEN JsonElements(t, j + 1, Append(acc, v.value))
        ELSE IF t[j] = RIGHT_BRACKET THEN JsonOk(j + 1, Py("list", Append(acc, v.value)))
        ELSE JsonFail))

\* the members of an object, from the first: a repeated name takes the last value
JsonMembers(t, i, acc) ==
    Let(JsonSkip(t, i), LAMBDA k :
        IF k > Len(t) \/ t[k] # DQUOTE THEN JsonFail
        ELSE JsonBind(JsonString(t, k + 1, <<>>), LAMBDA name :
             Let(JsonSkip(t, name.pos), LAMBDA c :
                 IF c > Len(t) \/ t[c] # COLON THEN JsonFail
                 ELSE JsonBind(JsonValue(t, c + 1), LAMBDA v :
                      Let(JsonSkip(t, v.pos), LAMBDA j :
                          IF j > Len(t) THEN JsonFail
                          ELSE IF t[j] = COMMA
                          THEN JsonMembers(t, j + 1, DictSet(acc, name.value.v, v.value))
                          ELSE IF t[j] = RIGHT_BRACE
                          THEN JsonOk(j + 1,
                                      Py("dict", DictSet(acc, name.value.v, v.value)))
                          ELSE JsonFail)))))

JsonValue(t, i0) ==
    Let(JsonSkip(t, i0), LAMBDA i :
        IF i > Len(t) THEN JsonFail
        ELSE IF t[i] = DQUOTE THEN JsonString(t, i + 1, <<>>)
        ELSE IF t[i] = LEFT_BRACKET
        THEN Let(JsonSkip(t, i + 1), LAMBDA j :
                 IF j <= Len(t) /\ t[j] = RIGHT_BRACKET THEN JsonOk(j + 1, Py("list", <<>>))
                 ELSE JsonElements(t, j, <<>>))
        ELSE IF t[i] = LEFT_BRACE
        THEN Let(JsonSkip(t, i + 1), LAMBDA j :
                 IF j <= Len(t) /\ t[j] = RIGHT_BRACE THEN JsonOk(j + 1, Py("dict", <<>>))
                 ELSE JsonMembers(t, j, <<>>))
        ELSE IF t[i] = 116 THEN JsonLiteral(t, i, StrTrue, Py("bool", TRUE))
        ELSE IF t[i] = 102 THEN JsonLiteral(t, i, StrFalse, Py("bool", FALSE))
        ELSE IF t[i] = 110 THEN JsonLiteral(t, i, StrNull, Py("None", <<>>))
        ELSE JsonNumber(t, i))

\* json.loads(t)
JsonLoads(t) ==
    JsonBind(JsonValue(t, 1), LAMBDA v :
        IF JsonSkip(t, v.pos) = Len(t) + 1 THEN v ELSE JsonFail)

\* C4: for a JSON-valid text (its nesting is far within max_depth = 1000 and
\* its numbers are small), loads with default options succeeds and returns the
\* value of the reference JSON reader
C4_JsonCompatible ==
    LET Same(reference) ==
            reference.ok => loaded.ok /\ loaded.value = reference.value
    IN  phase \in {"loaded", "dumped", "reloaded"} => Same(JsonLoads(text))

\* C5: loads of the text that dumps writes for a value that loads returned,
\* in each style, succeeds and returns an equal value
C5_RoundTrip ==
    phase = "reloaded" => reloaded.ok /\ reloaded.value = loaded.value

\* C6: for a text that is one quoted literal, parse returns a String whose
\* value is the decoded content the lexer read between the quotes; for a text
\* that is an object of one pair, the key of the object is the decoded content
\* of the key literal
C6_StringContentKept ==
    LET Kept(tokens) ==
            /\ Len(tokens) = 2 /\ tokens[1].type = "STRING" =>
                  doc.ok /\ doc.data.t = "string" /\ doc.data.v = tokens[1].value
            /\ doc.ok /\ doc.data.t = "object" /\ Cardinality(KeyPositions(tokens)) = 1 =>
                  /\ Len(doc.data.v) = 1
                  /\ \A i \in KeyPositions(tokens) : doc.data.v[1][1] = tokens[i].value
    IN  phase \notin {"input", "tokenized"} /\ doc.lexerr = NoError
        => Kept(SourceTokens)

\* C7: in strict mode, when the lexer raises a LexerError, from its
\* constructor or while tokenizing, what parse raises is a ParseError
C7_LexicalErrorIsParseError ==
    phase # "input" /\ options.strict_mode /\ doc.lexerr # NoError
    => ~doc.ok /\ doc.err.kind = "ParseError"

\* C8: the depth error carries the line and column of the token the parser is
\* at when it enters the container that exceeds the limit, its opening token
C8_DepthErrorPosition ==
    LET At(opening) ==
            doc.err.line = opening.line /\ doc.err.column = opening.column
    IN  phase # "input" /\ IsDepthError(doc) => At(SourceTokens[doc.ps.position + 1])

\* C9: a ParseError raised for a lexical violation ("Lexer error: ...") carries
\* the line and column of the LexerError; str() of a ParseError ends with
\* " at line L, column C" exactly when it carries them
C9_LexicalErrorPosition ==
    phase # "input" /\ doc.err.kind = "ParseError" /\ doc.lexerr # NoError
    /\ doc.err.message = "Lexer error: " \o doc.lexerr.message
    => doc.err.line = doc.lexerr.line /\ doc.err.column = doc.lexerr.column

\* the pairs (key, value) of a token list, in the order of the source
RECURSIVE SourcePairs(_, _)
SourcePairs(tokens, i) ==
    IF i + 2 > Len(tokens) THEN <<>>
    ELSE IF tokens[i].type = "STRING" /\ tokens[i + 1].type = "COLON"
            /\ tokens[i + 2].type = "NUMBER"
    THEN <<<<tokens[i].value, [t |-> "number", v |-> NumberOf(tokens[i + 2].value)]>>>>
         \o SourcePairs(tokens, i + 1)
    ELSE SourcePairs(tokens, i + 1)

\* the keys in the order of first appearance, each with its last value
RECURSIVE FirstOrderLastValue(_, _)
FirstOrderLastValue(pairs, acc) ==
    IF pairs = <<>> THEN acc
    ELSE FirstOrderLastValue(Tail(pairs), DictSet(acc, pairs[1][1], pairs[1][2]))

\* C10: an object that parse returns for a text of pairs of a key and a number
\* holds the keys of the source in the order of first appearance, each with the
\* value of its last occurrence; loads returns the pairs in the same order, in
\* a dict, in an OrderedDict and to object_hook
C10_KeyOrder ==
    LET Keys(pairs) == [i \in 1..Len(pairs) |-> pairs[i][1]]
        Loaded(kind) ==
            convert_to_python(doc.data,
                [DefaultLoadOptions EXCEPT !.use_ordered_dict = (kind = "OrderedDict"),
                                           !.object_hook = (kind = "hooked")])
    IN  phase # "input" /\ doc.ok /\ doc.data.t = "object"
        => /\ doc.data.v = FirstOrderLastValue(SourcePairs(SourceTokens, 1), <<>>)
           /\ \A kind \in {"dict", "OrderedDict", "hooked"} :
                 Loaded(kind).t = kind /\ Keys(Loaded(kind).v) = Keys(doc.data.v)

\* the index of the first tab of t, from i on, that is outside quoted strings
\* and comments (0 when there is none); state is "code", "comment", or the
\* quote of the string that is open
RECURSIVE FirstOutsideTab(_, _, _)
FirstOutsideTab(t, i, state) ==
    IF i > Len(t) THEN 0
    ELSE IF state = "code"
    THEN IF t[i] = TAB THEN i
         ELSE IF t[i] \in {DQUOTE, SQUOTE} THEN FirstOutsideTab(t, i + 1, <<t[i]>>)
         ELSE IF t[i] = HASH THEN FirstOutsideTab(t, i + 1, "comment")
         ELSE FirstOutsideTab(t, i + 1, "code")
    ELSE IF state = "comment"
    THEN FirstOutsideTab(t, i + 1, IF t[i] = LF THEN "code" ELSE "comment")
    ELSE IF t[i] = BACKSLASH THEN FirstOutsideTab(t, i + 2, state)
    ELSE FirstOutsideTab(t, i + 1, IF <<t[i]>> = state THEN "code" ELSE state)

\* C11: in a text without multiline scalars, a tab outside quoted strings and
\* comments, in indentation or in whitespace between tokens (what precedes it
\* tokenizes without error), makes parse fail, whatever strict_mode is: the
\* lexer raises 'Tab character in indentation' and parse raises it as the
\* ParseError 'Lexer error: Tab character in indentation'
C11_TabRejected ==
    LET Rejected(i) ==
            i > 0 /\ LexerRun(SubSeq(text, 1, i - 1)).err = NoError
            => /\ ~doc.ok
               /\ doc.lexerr.kind = "LexerError" /\ doc.lexerr.message = TabMessage
               /\ doc.err = ParseError("Lexer error: " \o TabMessage, NoToken)
    IN  phase = "parsed" /\ PIPE \notin Range(text) /\ GREATER \notin Range(text)
        => Rejected(FirstOutsideTab(text, 1, "code"))

\* strict_mode=False and a tab after the spaces that indent a later line:
\* parse has failed with the tab error
C11_Witness ==
    LET Indented(i) ==
            /\ i > 3 /\ text[i - 1] = SP /\ text[i - 2] = LF
            /\ LexerRun(SubSeq(text, 1, i - 1)).err = NoError
    IN  phase = "parsed" /\ ~options.strict_mode /\ ~doc.ok
        /\ doc.lexerr.message = TabMessage
        /\ Indented(FirstOutsideTab(text, 1, "code"))

\* C12: a quoted literal that contains a raw tab character is rejected: the
\* lexer raises a LexerError on it
C12_RawTabInStringRejected ==
    LET Literal(n) ==
            /\ n >= 3 /\ text[1] = DQUOTE /\ text[n] = DQUOTE
            /\ \A i \in 2..(n - 1) : text[i] \notin {DQUOTE, BACKSLASH}
            /\ \E i \in 2..(n - 1) : text[i] = TAB
    IN  phase = "tokenized" /\ Literal(Len(text)) => lexed.err # NoError

\* C13: for a text that is a number whose integer part is a 0 followed by
\* further digits (01, -012, 00), the lexer raises a LexerError, and it yields
\* no two NUMBER tokens
C13_LeadingZeroRejected ==
    LET LeadingZero(digits) ==
            /\ Len(digits) >= 2 /\ digits[1] = ZERO
            /\ \A i \in 1..Len(digits) : digits[i] \in Digits
        Numbers(tokens) == {i \in 1..Len(tokens) : tokens[i].type = "NUMBER"}
    IN  phase = "tokenized" /\ text # <<>>
        /\ LeadingZero(IF text[1] = DASH THEN Tail(text) ELSE text)
        => lexed.err.kind = "LexerError" /\ Cardinality(Numbers(lexed.tokens)) <= 1

\* b holds, from i on, a backslash, a u and four hexadecimal digits
IsEscape(b, i) ==
    /\ i + 5 <= Len(b) /\ b[i] = BACKSLASH /\ b[i + 1] = 117
    /\ \A k \in (i + 2)..(i + 5) : b[k] \in HexDigits

IsHigh(c) == 55296 <= c /\ c <= 56319
IsLow(c) == 56320 <= c /\ c <= 57343

\* what the body b of a quoted literal made of \uXXXX escapes and plain
\* characters decodes to, from i on: a high surrogate immediately followed by
\* a low surrogate is one code point, every other surrogate is an error
RECURSIVE Decoded(_, _, _)
Decoded(b, i, acc) ==
    IF i > Len(b) THEN [ok |-> TRUE, value |-> acc]
    ELSE IF b[i] # BACKSLASH THEN Decoded(b, i + 1, Append(acc, b[i]))
    ELSE IF ~IsEscape(b, i) THEN [ok |-> FALSE, value |-> <<>>]
    ELSE IF IsHigh(JsonHex4(b, i + 2))
    THEN IF IsEscape(b, i + 6) /\ IsLow(JsonHex4(b, i + 8))
         THEN Decoded(b, i + 12,
                      Append(acc, 65536 + (JsonHex4(b, i + 2) - 55296) * 1024
                                        + (JsonHex4(b, i + 8) - 56320)))
         ELSE [ok |-> FALSE, value |-> <<>>]
    ELSE IF IsLow(JsonHex4(b, i + 2)) THEN [ok |-> FALSE, value |-> <<>>]
    ELSE Decoded(b, i + 6, Append(acc, JsonHex4(b, i + 2)))

\* C14: in a quoted literal, the escape of a high surrogate h immediately
\* followed by the escape of a low surrogate l decodes to the one code point
\* 0x10000 + (h - 0xD800) * 0x400 + (l - 0xDC00), in 10000..10FFFF; a high
\* surrogate followed by anything else, and a low surrogate that follows no
\* high surrogate, raise a LexerError; no surrogate is left in the value
C14_SurrogatePairs ==
    LET Holds(ref) ==
            /\ ref.ok =>
                  /\ lexed.err = NoError
                  /\ lexed.tokens[1].type = "STRING"
                  /\ lexed.tokens[1].value = ref.value
                  /\ \A c \in Range(ref.value) :
                        ~IsHigh(c) /\ ~IsLow(c) /\ c <= 1114111
            /\ ~ref.ok => lexed.err.kind = "LexerError" /\ lexed.tokens = <<>>
    IN  phase = "tokenized" => Holds(Decoded(SubSeq(text, 2, Len(text) - 1), 1, <<>>))

\* the literal "\ud83d\ude80" has been read as the one code point U+1F680
C14_Witness ==
    /\ phase = "tokenized" /\ Len(text) = 14 /\ IsEscape(text, 2) /\ IsEscape(text, 8)
    /\ JsonHex4(text, 4) = 55357 /\ JsonHex4(text, 10) = 56960
    /\ lexed.err = NoError /\ lexed.tokens[1].value = <<128640>>

(***************************************************************************)
(* Multiline scalars, as the rules describe them: for a text that starts   *)
(* with an indicator (| or >, an optional -, a newline), the lines that    *)
(* follow, the base indent, and the lines in scope.                        *)
(***************************************************************************)
\* the lines of s: what each newline ends, and what follows the last one
RECURSIVE SplitLines(_, _)
SplitLines(s, cur) ==
    IF s = <<>> THEN (IF cur = <<>> THEN <<>> ELSE <<cur>>)
    ELSE IF s[1] = LF THEN <<cur>> \o SplitLines(Tail(s), <<>>)
    ELSE SplitLines(Tail(s), Append(cur, s[1]))

IndentOf(line) == Len(line) - Len(LStrip(line, {SP}))

Blank(line) == LStrip(line, {SP}) = <<>>

\* the number of leading spaces of the first non-empty line (0 without one)
RECURSIVE BaseIndent(_)
BaseIndent(lines) ==
    IF lines = <<>> THEN 0
    ELSE IF Blank(lines[1]) THEN BaseIndent(Tail(lines))
    ELSE IndentOf(lines[1])

\* the lines in scope: those before the first non-empty line indented less
\* than base, or not indented
RECURSIVE InScope(_, _)
InScope(lines, base) ==
    IF lines = <<>> THEN <<>>
    ELSE IF Blank(lines[1]) \/ (IndentOf(lines[1]) >= base /\ IndentOf(lines[1]) > 0)
    THEN <<lines[1]>> \o InScope(Tail(lines), base)
    ELSE <<>>

\* the length of the indicator line the text starts with, 0 when it starts with none
HeaderLen(t) ==
    IF Len(t) >= 2 /\ t[1] \in {PIPE, GREATER} /\ t[2] = LF THEN 2
    ELSE IF Len(t) >= 3 /\ t[1] \in {PIPE, GREATER} /\ t[2] = DASH /\ t[3] = LF THEN 3
    ELSE 0

\* the scalar a text starts with: its style, its chomping, its lines in scope
ScalarOf(t) ==
    LET lines == SplitLines(SubSeq(t, HeaderLen(t) + 1, Len(t)), <<>>) IN
    [literal |-> t[1] = PIPE,
     strip |-> HeaderLen(t) = 3,
     base |-> BaseIndent(lines),
     lines |-> InScope(lines, BaseIndent(lines))]

\* the text starts with a multiline scalar that the lexer read without error
ScalarRead ==
    /\ phase = "tokenized" /\ HeaderLen(text) > 0
    /\ lexed.err = NoError /\ lexed.tokens[1].type = "STRING"

HasBody(scalar) == \E i \in 1..Len(scalar.lines) : ~Blank(scalar.lines[i])

\* C15: for a multiline scalar with a non-empty body, without a chomping
\* indicator the STRING value ends with exactly one newline, and with the
\* indicator - it ends with no newline
C15_Chomping ==
    LET Ends(n, value) == n >= 1 /\ value[n] = LF
        Chomped(scalar, value) ==
            IF scalar.strip THEN ~Ends(Len(value), value)
            ELSE Ends(Len(value), value) /\ ~Ends(Len(value) - 1, value)
    IN  ScalarRead /\ HasBody(ScalarOf(text))
        => Chomped(ScalarOf(text), lexed.tokens[1].value)

\* s without its spaces
Unspaced(s) == SelectSeq(s, LAMBDA c : c # SP)

\* C16: for | and |-, the STRING value is the lines in scope joined with a
\* newline, whatever the indicator; compared without the trailing newlines
\* (the chomping of C15) and without spaces (the indentation of C17)
C16_LiteralJoin ==
    LET Joined(scalar) ==
            Join([i \in 1..Len(scalar.lines) |-> Unspaced(scalar.lines[i])], <<LF>>)
    IN  ScalarRead /\ text[1] = PIPE
        => RStrip(Unspaced(lexed.tokens[1].value), {LF})
           = RStrip(Joined(ScalarOf(text)), {LF})

\* a line without its first n characters
Drop(line, n) == IF n >= Len(line) THEN <<>> ELSE SubSeq(line, n + 1, Len(line))

\* C17: base_indent is the indent of the first non-empty line, and exactly
\* base_indent leading spaces are removed from every line in scope: a line
\* indented by base_indent + k keeps k spaces.  Stated for the indicator |,
\* whose value is the lines joined with a newline; trailing newlines (the
\* chomping of C15) are left out of the comparison
C17_BaseIndentStripped ==
    LET Stripped(scalar) ==
            Join([i \in 1..Len(scalar.lines) |-> Drop(scalar.lines[i], scalar.base)],
                 <<LF>>)
    IN  ScalarRead /\ HeaderLen(text) = 2 /\ text[1] = PIPE
        => RStrip(lexed.tokens[1].value, {LF}) = RStrip(Stripped(ScalarOf(text)), {LF})

\* the folding of lines: non-empty lines joined by one space, or by one
\* newline where empty lines lie between them; pending is what will join the
\* next non-empty line to what precedes it
RECURSIVE Folded(_, _, _)
Folded(lines, acc, pending) ==
    IF lines = <<>> THEN acc
    ELSE IF Blank(lines[1])
    THEN Folded(Tail(lines), acc, IF acc = <<>> THEN <<>> ELSE <<LF>>)
    ELSE Folded(Tail(lines), acc \o pending \o PyStrip(lines[1]), <<SP>>)

\* C18: for > and >-, consecutive non-empty lines are joined by one space,
\* and a run of empty lines between two non-empty lines becomes one newline
C18_Folding ==
    ScalarRead /\ text[1] = GREATER
    => lexed.tokens[1].value = Folded(ScalarOf(text).lines, <<>>, <<>>)

\* the index in t of column 1 of a line: after the (line - 1)-th newline
RECURSIVE LineStart(_, _, _)
LineStart(t, line, i) ==
    IF line <= 1 THEN i
    ELSE IF i > Len(t) THEN Len(t) + 2
    ELSE LineStart(t, IF t[i] = LF THEN line - 1 ELSE line, i + 1)

\* the index in t of the character at (line, column)
OffsetOf(t, token) == LineStart(t, token.line, 1) + token.column - 1

\* the lexeme of a token starts in t at index off
StartsAt(t, token, off) ==
    LET n == Len(token.value)
        Here(lexeme) ==
            off + Len(lexeme) - 1 <= Len(t)
            /\ SubSeq(t, off, off + Len(lexeme) - 1) = lexeme
    IN  IF token.type = "EOF" THEN off = Len(t) + 1
        ELSE IF off < 1 \/ off > Len(t) THEN FALSE
        ELSE IF token.type = "STRING" THEN t[off] \in {DQUOTE, SQUOTE, PIPE, GREATER}
        ELSE IF token.type = "COMMENT" THEN t[off] = HASH
        ELSE IF token.type = "INDENT"
        THEN /\ t[off] = SP
             /\ IndentOf(SubSeq(t, off, Len(t))) = NatOfStr(token.value, 0)
        ELSE Here(token.value)

\* C19: for a text the lexer reads without error, every token carries the
\* line and column of the first character of its lexeme, the lexemes follow
\* one another in the text, and an INDENT token has column 1
C19_TokenPositions ==
    LET Positioned(tokens) ==
            /\ \A i \in 1..Len(tokens) :
                  /\ StartsAt(text, tokens[i], OffsetOf(text, tokens[i]))
                  /\ tokens[i].type = "INDENT" => tokens[i].column = 1
            /\ \A i \in 1..(Len(tokens) - 1) :
                  OffsetOf(text, tokens[i]) < OffsetOf(text, tokens[i + 1])
    IN  phase = "tokenized" /\ lexed.err = NoError => Positioned(lexed.tokens)

\* C20: for a text the lexer reads without error, every token has line >= 1
\* and column >= 1, and the positions (line, column) of successive tokens
\* never decrease
C20_PositionsOrdered ==
    LET NotBefore(a, b) == a.line < b.line \/ (a.line = b.line /\ a.column <= b.column)
        Ordered(tokens) ==
            /\ \A i \in 1..Len(tokens) : tokens[i].line >= 1 /\ tokens[i].column >= 1
            /\ \A i \in 1..(Len(tokens) - 1) : NotBefore(tokens[i], tokens[i + 1])
    IN  phase = "tokenized" /\ lexed.err = NoError => Ordered(lexed.tokens)

\* a text read without error: a multiline scalar of two lines, ended by a
\* line that is indented less, then the INDENT and the NUMBER of that line
C20_Witness ==
    /\ phase = "tokenized" /\ lexed.err = NoError /\ HeaderLen(text) > 0
    /\ Len(ScalarOf(text).lines) = 2
    /\ Len(lexed.tokens) >= 4
    /\ lexed.tokens[1].type = "STRING" /\ lexed.tokens[1].line = 1
    /\ lexed.tokens[2].type = "INDENT" /\ lexed.tokens[2].line = 4
    /\ lexed.tokens[3].type = "NUMBER" /\ lexed.tokens[3].line = 4

(***************************************************************************)
(* C21.  tokenize terminates and every token but EOF consumes input.       *)
(***************************************************************************)
\* self.position after each call of next_token that tokenize makes, up to
\* the call that returns EOF or raises
RECURSIVE Cursors(_, _, _)
Cursors(t, lx, acc) ==
    LET Step(r) ==
            IF r.err # NoError THEN acc
            ELSE IF r.value.type = "EOF" THEN Append(acc, r.lx.position)
            ELSE Cursors(t, r.lx, Append(acc, r.lx.position))
    IN  Step(NextToken(t, lx))

\* C21: tokenize ends on every text, with a LexerError or with a token
\* sequence that holds EOF exactly once, as its last token, and is no
\* longer than the text plus one; every call of next_token that returns a
\* token other than EOF leaves the cursor further in the text than it found it
C21_TokenizeTerminates ==
    LET tokens == lexed.tokens
        Consumes(cur) ==
            /\ Len(cur) = Len(tokens)
            /\ \A i \in 1..Len(cur) :
                  /\ cur[i] <= Len(text)
                  /\ tokens[i].type # "EOF"
                     => cur[i] > (IF i = 1 THEN 0 ELSE cur[i - 1])
    IN  phase = "tokenized" /\ LexerNew(text) = NoError
        => /\ Len(tokens) <= Len(text) + 1
           /\ \A i \in 1..Len(tokens) :
                 tokens[i].type = "EOF" <=> (lexed.err = NoError /\ i = Len(tokens))
           /\ lexed.err = NoError => tokens # <<>>
           /\ lexed.err # NoError => lexed.err.kind = "LexerError"
           /\ Consumes(Cursors(text, LexerInit, <<>>))

\* a multiline scalar ended by a line that is indented less, where
\* read_multiline_string moves the cursor back to the start of that line,
\* and the tokens of that line after it
C21_Witness ==
    /\ phase = "tokenized" /\ lexed.err = NoError /\ HeaderLen(text) > 0
    /\ Len(ScalarOf(text).lines) >= 1
    /\ Len(lexed.tokens) >= 5
    /\ lexed.tokens[1].type = "STRING"
    /\ lexed.tokens[2].type = "INDENT"
    /\ lexed.tokens[Len(lexed.tokens)].type = "EOF"

(***************************************************************************)
(* C22.  Tokens after the root value.                                      *)
(***************************************************************************)
\* the index of the first token from i on that skip_newlines does not skip
RECURSIVE FirstSolid(_, _)
FirstSolid(tokens, i) ==
    IF i > Len(tokens) THEN i
    ELSE IF tokens[i].type \in {"NEWLINE", "INDENT"} THEN FirstSolid(tokens, i + 1)
    ELSE i

\* the text starts with a scalar that is a whole value: a number, a literal,
\* or a string that no colon follows
ScalarRoot(tokens) ==
    LET i == FirstSolid(tokens, 1) IN
    /\ i <= Len(tokens)
    /\ \/ tokens[i].type \in {"NUMBER", "TRUE", "FALSE", "NULL"}
       \/ /\ tokens[i].type = "STRING"
          /\ i < Len(tokens) => tokens[i + 1].type # "COLON"

\* C22: parse returns a document only when the parser has consumed every
\* token the lexer yielded for the text, up to EOF; the error raised for a
\* token left after the root value is at that token, which is none of
\* NEWLINE, INDENT, EOF; and when the root value is a scalar, the first token
\* after it that is none of these makes parse fail at its position
C22_TrailingTokensRejected ==
    LET At(token) ==
            /\ ~doc.ok /\ doc.err.kind = "ParseError"
            /\ doc.err.line = token.line /\ doc.err.column = token.column
        Holds(tokens) ==
            /\ doc.ok =>
                  \A i \in (doc.ps.position + 1)..Len(tokens) : tokens[i].type = "EOF"
            /\ doc.err.message = "Unexpected token after document" =>
                  /\ doc.ps.position < Len(tokens)
                  /\ tokens[doc.ps.position + 1].type \notin {"NEWLINE", "INDENT", "EOF"}
                  /\ At(tokens[doc.ps.position + 1])
            /\ doc.err = NoError \/ doc.err.message = "Unexpected token after document" =>
                  (ScalarRoot(tokens) =>
                      LET j == FirstSolid(tokens, FirstSolid(tokens, 1) + 1) IN
                      j <= Len(tokens) /\ tokens[j].type # "EOF" => At(tokens[j]))
    IN  phase = "parsed" => Holds(SourceTokens)

\* "1", a newline, a space and a second "1": the root value, then NEWLINE and
\* INDENT, then a token that is rejected at line 2, column 2
C22_Witness ==
    /\ phase = "parsed" /\ ~doc.ok
    /\ doc.err.message = "Unexpected token after document"
    /\ doc.err.line = 2 /\ doc.err.column = 2
    /\ Len(SourceTokens) >= 4
    /\ SourceTokens[1].type = "NUMBER" /\ SourceTokens[2].type = "NEWLINE"
    /\ SourceTokens[3].type = "INDENT" /\ SourceTokens[4].type = "NUMBER"

(***************************************************************************)
(* C23.  Trailing commas in flow containers.                               *)
(***************************************************************************)
\* the index of the last token before i that skip_newlines does not skip
RECURSIVE LastSolid(_, _)
LastSolid(tokens, i) ==
    IF i < 1 THEN 0
    ELSE IF tokens[i].type \in {"NEWLINE", "INDENT"} THEN LastSolid(tokens, i - 1)
    ELSE i

\* the commas that follow an element and precede a closing bracket or brace
TrailingCommas(tokens) ==
    {i \in 1..Len(tokens) :
        /\ tokens[i].type = "COMMA"
        /\ LastSolid(tokens, i - 1) > 0
        /\ tokens[LastSolid(tokens, i - 1)].type
              \notin {"LEFT_BRACKET", "LEFT_BRACE", "COMMA"}
        /\ FirstSolid(tokens, i + 1) <= Len(tokens)
        /\ tokens[FirstSolid(tokens, i + 1)].type \in {"RIGHT_BRACKET", "RIGHT_BRACE"}}

\* the commas with no element before them: after an opening bracket or
\* brace, or after another comma
BareCommas(tokens) ==
    {i \in 1..Len(tokens) :
        /\ tokens[i].type = "COMMA"
        /\ LastSolid(tokens, i - 1) > 0
        /\ tokens[LastSolid(tokens, i - 1)].type
              \in {"LEFT_BRACKET", "LEFT_BRACE", "COMMA"}}

\* t without its character at index off
WithoutChar(t, off) == SubSeq(t, 1, off - 1) \o SubSeq(t, off + 1, Len(t))

\* C23: removing one trailing comma (a comma after an element and before the
\* closing bracket or brace) from the text does not change what parse
\* returns or whether it raises; a text with a comma that has no element
\* before it ("[,", "{,", ",,") raises an error
C23_TrailingComma ==
    LET Same(other) == doc.ok = other.ok /\ (doc.ok => doc.data = other.data)
        Holds(tokens) ==
            /\ \A i \in TrailingCommas(tokens) :
                  Same(Parse(WithoutChar(text, OffsetOf(text, tokens[i])), options))
            /\ BareCommas(tokens) # {} => ~doc.ok
    IN  phase = "parsed" /\ doc.lexerr = NoError => Holds(SourceTokens)

\* {"a":1,}: a flow object with a trailing comma, accepted as {"a":1} is
C23_Witness ==
    /\ phase = "parsed" /\ doc.ok /\ doc.data.t = "object"
    /\ Len(doc.data.v) = 1
    /\ TrailingCommas(SourceTokens) # {}

(***************************************************************************)
(* C24.  Comments.                                                         *)
(***************************************************************************)
\* The comments of t read off its characters: a comment runs from a '#'
\* that is outside a quoted string to the end of its line.  state is "code",
\* "comment", or the quote of the string being read, in which a backslash
\* takes the next character with it.  The result is the comment bodies,
\* trimmed, and t without its comments.
RECURSIVE CommentScan(_, _, _, _, _)
CommentScan(t, i, state, cur, acc) ==
    IF i > Len(t)
    THEN IF state = "comment"
         THEN [acc EXCEPT !.comments = Append(@, PyStrip(cur))]
         ELSE acc
    ELSE IF state = "comment"
    THEN IF t[i] = LF
         THEN CommentScan(t, i + 1, "code", <<>>,
                          [comments |-> Append(acc.comments, PyStrip(cur)),
                           rest |-> Append(acc.rest, LF)])
         ELSE CommentScan(t, i + 1, state, Append(cur, t[i]), acc)
    ELSE IF state = "code"
    THEN IF t[i] = HASH THEN CommentScan(t, i + 1, "comment", <<>>, acc)
         ELSE CommentScan(t, i + 1,
                          IF t[i] = DQUOTE THEN "double"
                          ELSE IF t[i] = SQUOTE THEN "single" ELSE "code",
                          cur, [acc EXCEPT !.rest = Append(@, t[i])])
    ELSE IF t[i] = BACKSLASH /\ i < Len(t)
    THEN CommentScan(t, i + 2, state, cur,
                     [acc EXCEPT !.rest = @ \o <<t[i], t[i + 1]>>])
    ELSE CommentScan(t, i + 1,
                     IF (state = "double" /\ t[i] = DQUOTE)
                        \/ (state = "single" /\ t[i] = SQUOTE)
                     THEN "code" ELSE state,
                     cur, [acc EXCEPT !.rest = Append(@, t[i])])

CommentsOf(t) == CommentScan(t, 1, "code", <<>>, [comments |-> <<>>, rest |-> <<>>])

\* C24: for a text the lexer reads without error (and without multiline
\* scalars), the document returned with preserve_comments=True holds the
\* trimmed bodies of the comments of the text, in source order, a '#' inside
\* a quoted string not being one; with preserve_comments=False it holds
\* none; and parse returns the same value, or raises, as for the text
\* without its comments
C24_Comments ==
    LET Same(other) == doc.ok = other.ok /\ (doc.ok => doc.data = other.data)
        Holds(ref) ==
            /\ doc.ok => doc.comments = IF options.preserve_comments
                                        THEN ref.comments ELSE <<>>
            /\ Same(Parse(ref.rest, options))
    IN  phase = "parsed" /\ doc.lexerr = NoError
        /\ PIPE \notin Range(text) /\ GREATER \notin Range(text)
        => Holds(CommentsOf(text))

\* "#"#a with preserve_comments=True: the string "#" and the one comment a
C24_Witness ==
    /\ phase = "parsed" /\ doc.ok /\ options.preserve_comments
    /\ doc.data = JYAMLString(<<HASH>>)
    /\ doc.comments = << <<97>> >>

(***************************************************************************)
(* C25.  Comment positions.                                                *)
(***************************************************************************)
\* C25: with include_comment_positions set, the document returned for a text
\* with comments carries the text, line and column of every comment, in
\* source order, as the parser collected them; without the option it
\* carries no positions
C25_CommentPositions ==
    LET Carried(positions) ==
            doc.source_info # None /\ doc.source_info = positions
    IN  phase = "parsed" /\ doc.ok
        => /\ options.include_comment_positions /\ doc.comments # <<>>
              => Carried(ParserNew(text, options).comment_positions)
           /\ ~options.include_comment_positions => doc.source_info = None

(***************************************************************************)
(* C26.  ParseOptions instances are consistent.                            *)
(***************************************************************************)
\* C26: whatever operations came before, an instance left by a
\* construction, a preset or a field assignment that did not raise has not
\* strict_mode together with allow_duplicate_keys, has not
\* include_comment_positions without preserve_comments, and has max_depth
\* None or in 1..100000: an operation that would produce another value raises
C26_OptionsValid ==
    phase = "options"
    => /\ ~(options.strict_mode /\ options.allow_duplicate_keys)
       /\ ~(options.include_comment_positions /\ ~options.preserve_comments)
       /\ options.max_depth = None \/ options.max_depth \in 1..100000

\* an instance obtained without error and that no preset gives: duplicate
\* keys allowed, comments dropped, the largest depth, no normalization
C26_Witness ==
    /\ phase = "options"
    /\ ~options.strict_mode /\ options.allow_duplicate_keys
    /\ ~options.preserve_comments /\ ~options.include_comment_positions
    /\ options.max_depth = 100000
    /\ options.normalize_line_endings = "none"

(***************************************************************************)
(* C27.  parse_numbers=False.                                              *)
(***************************************************************************)
\* C27: with parse_numbers=False, loads of a text that is one number returns
\* the string that is the number's lexeme, character for character
C27_NumberLexemeKept ==
    LET Kept(tk) ==
            tk.err = NoError /\ Len(tk.tokens) = 2 /\ tk.tokens[1].type = "NUMBER"
            => loaded.ok /\ loaded.value = Py("str", tk.tokens[1].value)
    IN  phase = "loaded" /\ ~load_options.parse_numbers => Kept(LexerRun(text))

(***************************************************************************)
(* C28.  Indentation of block objects.  The reference reads a text whose   *)
(* lines are each a quoted one-letter key and a colon, followed or not by  *)
(* a digit, after some spaces.                                             *)
(***************************************************************************)
KeyLine(line) ==
    LET body == LStrip(line, {SP}) IN
    /\ Len(body) \in {4, 5}
    /\ body[1] = DQUOTE /\ body[3] = DQUOTE /\ body[4] = COLON
    /\ Len(body) = 5 => IsDigit(body[5])

\* the key of a key line, and the value of one that has a value
KeyOf(line) == <<LStrip(line, {SP})[2]>>
HasValue(line) == Len(LStrip(line, {SP})) = 5
ValueOf(line) == JYAMLNumber(PyInt(LStrip(line, {SP})[5] - ZERO))

BlockFail == [ok |-> FALSE, items |-> <<>>, next |-> 0]

\* The object whose keys are indented by indent, read from line i on: it
\* ends before the first line that is indented less; a key without a value
\* has for value the object of the lines that follow it, which are indented
\* more.  The result is the pairs and the index of the line after the
\* object, or not ok: a line indented more than the keys, a key without
\* value and without such lines, a key that occurs twice.
RECURSIVE BlockRef(_, _, _, _)
BlockRef(lines, i, indent, items) ==
    LET Nested(sub) ==
            IF ~sub.ok THEN BlockFail
            ELSE BlockRef(lines, sub.next, indent,
                          Append(items, <<KeyOf(lines[i]),
                                          [t |-> "object", v |-> sub.items]>>))
    IN  IF i > Len(lines) \/ IndentOf(lines[i]) < indent
        THEN [ok |-> TRUE, items |-> items, next |-> i]
        ELSE IF IndentOf(lines[i]) > indent THEN BlockFail
        ELSE IF \E k \in 1..Len(items) : items[k][1] = KeyOf(lines[i]) THEN BlockFail
        ELSE IF HasValue(lines[i])
        THEN BlockRef(lines, i + 1, indent,
                      Append(items, <<KeyOf(lines[i]), ValueOf(lines[i])>>))
        ELSE IF i = Len(lines) \/ IndentOf(lines[i + 1]) <= indent THEN BlockFail
        ELSE Nested(BlockRef(lines, i + 1, IndentOf(lines[i + 1]), <<>>))

\* C28: a text of key lines that the reference reads to its end parses to
\* the object the reference gives: the pair on a line that is indented less
\* than the keys of the object being read belongs to the enclosing object
C28_BlockIndentation ==
    LET Agrees(ref, n) ==
            ref.ok /\ ref.next = n + 1
            => doc.ok /\ doc.data = [t |-> "object", v |-> ref.items]
        Holds(lines) ==
            lines # <<>> /\ (\A i \in 1..Len(lines) : KeyLine(lines[i]))
            => Agrees(BlockRef(lines, 1, IndentOf(lines[1]), <<>>), Len(lines))
    IN  phase = "parsed" => Holds(SplitLines(text, <<>>))

\* the index of the first carriage return of t, from i on, that is outside
\* quoted strings and comments (0 when there is none)
RECURSIVE FirstOutsideCr(_, _, _)
FirstOutsideCr(t, i, state) ==
    IF i > Len(t) THEN 0
    ELSE IF state = "code"
    THEN IF t[i] = CR THEN i
         ELSE IF t[i] \in {DQUOTE, SQUOTE} THEN FirstOutsideCr(t, i + 1, <<t[i]>>)
         ELSE IF t[i] = HASH THEN FirstOutsideCr(t, i + 1, "comment")
         ELSE FirstOutsideCr(t, i + 1, "code")
    ELSE IF state = "comment"
    THEN FirstOutsideCr(t, i + 1, IF t[i] = LF THEN "code" ELSE "comment")
    ELSE IF t[i] = BACKSLASH THEN FirstOutsideCr(t, i + 2, state)
    ELSE FirstOutsideCr(t, i + 1, IF <<t[i]>> = state THEN "code" ELSE state)

\* t with every carriage return and line feed pair, and every other carriage
\* return, written as one line feed
RECURSIVE CrAsLf(_, _, _)
CrAsLf(t, i, acc) ==
    IF i > Len(t) THEN acc
    ELSE IF t[i] # CR THEN CrAsLf(t, i + 1, Append(acc, t[i]))
    ELSE IF i < Len(t) /\ t[i + 1] = LF THEN CrAsLf(t, i + 2, Append(acc, LF))
    ELSE CrAsLf(t, i + 1, Append(acc, LF))

\* C29: with normalize_line_endings "none" a text with a carriage return
\* outside quoted strings and comments fails with a lexical error; with "lf"
\* the text parses as the text in which each carriage return and line feed
\* pair and each other carriage return is a line feed
C29_CarriageReturn ==
    LET Same(ref) ==
            /\ doc.ok = ref.ok
            /\ doc.ok => doc.data = ref.data /\ doc.comments = ref.comments
            /\ ~doc.ok => doc.err = ref.err
    IN  phase = "parsed"
        => /\ options.normalize_line_endings = "none"
              /\ FirstOutsideCr(text, 1, "code") > 0
              => ~doc.ok /\ doc.lexerr # NoError
           /\ options.normalize_line_endings = "lf"
              => Same(Parse(CrAsLf(text, 1, <<>>),
                            [options EXCEPT !.normalize_line_endings = "lf"]))

\* the types of the brackets that are open before token i, innermost last
RECURSIVE OpenBrackets(_, _, _, _)
OpenBrackets(tokens, k, i, stack) ==
    IF k >= i THEN stack
    ELSE IF tokens[k].type \in {"LEFT_BRACE", "LEFT_BRACKET"}
    THEN OpenBrackets(tokens, k + 1, i, Append(stack, tokens[k].type))
    ELSE IF tokens[k].type \in {"RIGHT_BRACE", "RIGHT_BRACKET"} /\ stack # <<>>
    THEN OpenBrackets(tokens, k + 1, i, SubSeq(stack, 1, Len(stack) - 1))
    ELSE OpenBrackets(tokens, k + 1, i, stack)

\* the keys of a flow object that follow the value of the pair before them
\* with no comma and no NEWLINE in between
PairsWithoutComma(tokens) ==
    { i \in 2..(Len(tokens) - 1) :
        /\ tokens[i].type = "STRING" /\ tokens[i + 1].type = "COLON"
        /\ tokens[i - 1].type \in {"NUMBER", "RIGHT_BRACKET", "RIGHT_BRACE"}
        /\ tokens[i - 1].line = tokens[i].line
        /\ OpenBrackets(tokens, 1, i, <<>>) # <<>>
        /\ LET open == OpenBrackets(tokens, 1, i, <<>>)
           IN  open[Len(open)] = "LEFT_BRACE" }

\* C30: a text in which a pair of a flow object follows the pair before it on
\* the same line without a comma is rejected with a ParseError
C30_CommaRequiredOnSameLine ==
    phase = "parsed" /\ doc.lexerr = NoError /\ PairsWithoutComma(SourceTokens) # {}
    => ~doc.ok /\ doc.err.kind = "ParseError"

====
